---- MODULE Spec2Model ----
(***************************************************************************)
(* MESI internal directory for a non-inclusive cache with several          *)
(* children (memHierarchy/coherencemgr/MESIInternalDirectory.cc).          *)
(*                                                                         *)
(* One directory line (one block address) is modelled together with the    *)
(* MSHR entry of that address, the messages the engine emits and the       *)
(* parties around it: the children above (identified 1..NumChildren), the  *)
(* parent below (identified 0) and the cache controller that hands events  *)
(* to the engine and replays the MSHR.  Every handler of the engine is an  *)
(* operator from the engine state (a record) and an event to the engine    *)
(* state after the call; an action applies one handler and lets the        *)
(* messages it emitted update what the children and the parent owe.        *)
(***************************************************************************)
EXTENDS Integers, Sequences, FiniteSets, TLC

\* ----------------------------------------------------------------- bounds
NumChildren == 2
MaxData == 1
MaxMSHR == 3     \* events waiting in the MSHR entry
MaxDown == 2     \* messages the parent has not processed yet
MaxAcks == 3     \* acknowledgements awaited at once
MaxIssued == 4   \* requests, writebacks, flushes, invalidations, evictions begun
MaxDeep == 5     \* the same, in the runs of one configuration
MaxShort == 3    \* the same, in the runs that follow a second address or the queries
MaxTime == 3      \* the engine's clock is followed up to this time
MaxStamp == 7     \* delivery times are followed up to this time
MaxLatency == 2   \* tag, MSHR and access latencies are drawn from 1..MaxLatency

Children == 1..NumChildren
Parent == 0
NoOwner == 0
NoData == 0
Data == 1..MaxData

\* ------------------------------------------------------------------ state
VARIABLES
  \* configuration of the engine, fixed at construction
  protocol,              \* protocol_: MESI (TRUE) or MSI (FALSE)
  lastLevel,             \* lastLevel_: only memory below
  expectWritebackAck,    \* expectWritebackAck_
  writebackCleanBlocks,  \* writebackCleanBlocks_
  limit,                 \* operations the parties may begin in this run
  nacks,                 \* the run follows messages that may come back NACKed
  \* the directory line of the address
  state, sharers, owner,
  cached,                \* getDataLine() != NULL
  lineData,              \* contents of the data line
  \* the MSHR entry of the address
  mshr,                  \* queue of waiting events
  acksNeeded,
  pendingWb,             \* writeback marker
  dataBuffer,
  \* the call just made
  pre,                   \* the line and the MSHR entry when the call began
  lastOp,                \* entry point
  lastEv,                \* event handled
  lastReplay,            \* replay flag of the call
  lastDenied,            \* the call found the MSHR full or no line to allocate
  lastAction,            \* disposition returned
  out,                   \* messages emitted by the call
  fatal,                 \* the engine stopped in a fatal diagnostic
  \* the cache controller
  replayQ,               \* entries taken from the MSHR, being replayed
  \* the parties around the engine
  pend,                  \* per child: invalidation/fetch sent, not answered
  lost,                  \* per child: invalidation/fetch that found no block there
  busy,                  \* per child: request or flush sent, not answered
  down,                  \* messages to the parent it has not processed
  pinv,                  \* the parent waits for the answer to its invalidation
  pview,                 \* the parent's record of this cache: "I", "S", "X"
  issued,                \* operations begun by the parties so far
  unacked,               \* writebacks emitted that await an acknowledgement
  pointers,              \* pointers in the MSHR from this address to another
  otherMSHR,             \* events waiting in the MSHR on the other address
  \* the times of the messages sent for the line
  timestamp_,            \* the engine's current time
  lineTimestamp,         \* getTimestamp() of the directory line
  tagLatency_, mshrLatency_, accessLatency_,
  lastSend,              \* the emitter called last and what it computed
  \* the processing elements of the Shmem putv motif (ember)
  shmem                  \* n_pes and, per PE, m_phase, the event queue and m_ptr[0]

cfgVars == <<protocol, lastLevel, expectWritebackAck, writebackCleanBlocks, limit, nacks>>
lineVars == <<state, sharers, owner, cached, lineData>>
mshrVars == <<mshr, acksNeeded, pendingWb, dataBuffer>>
callVars == <<pre, lastOp, lastEv, lastReplay, lastDenied, lastAction, out, fatal>>
envVars == <<replayQ, pend, lost, busy, down, pinv, pview, issued, unacked, pointers,
             otherMSHR>>
timeVars == <<timestamp_, lineTimestamp, tagLatency_, mshrLatency_, accessLatency_, lastSend>>
shmemVars == <<shmem>>
vars == <<cfgVars, lineVars, mshrVars, callVars, envVars, timeVars, shmemVars>>

\* ------------------------------------------------------------ vocabulary
Stable == {"I", "S", "E", "M"}
ParentWait == {"IS", "IM", "SM", "S_B", "I_B"}
AckWait == {"S_Inv", "SI", "SB_Inv", "E_Inv", "EI", "E_InvX", "M_Inv", "MI",
            "M_InvX", "SM_Inv", "S_D", "E_D", "M_D", "SM_D"}
States == Stable \cup ParentWait \cup AckWait

GetCmds == {"GetS", "GetX", "GetSX"}
PutCmds == {"PutS", "PutE", "PutM"}
InvCmds == {"Inv", "ForceInv", "Fetch", "FetchInv", "FetchInvX"}
FlushCmds == {"FlushLine", "FlushLineInv"}

\* An event as the handlers read it: command, source, payload, dirty flag.
Ev(cmd, src, payload, dirty) ==
  [cmd |-> cmd, src |-> src, payload |-> payload, dirty |-> dirty]
NoEv == Ev("none", Parent, NoData, FALSE)

\* An outbound message: command, destination, payload, dirty, success.
Msg(cmd, dst, payload, dirty) ==
  [cmd |-> cmd, dst |-> dst, payload |-> payload, dirty |-> dirty, success |-> FALSE]

\* Command -> response command (MemEvent::makeResponse).
RespCmd(cmd) ==
  CASE cmd = "GetS" -> "GetSResp"
    [] cmd \in {"GetX", "GetSX"} -> "GetXResp"
    [] cmd \in {"Inv", "ForceInv"} -> "AckInv"
    [] cmd \in {"Fetch", "FetchInv"} -> "FetchResp"
    [] cmd = "FetchInvX" -> "FetchXResp"
    [] cmd \in FlushCmds -> "FlushLineResp"
    [] cmd \in PutCmds -> "AckPut"
    [] OTHER -> "none"

\* NextState[] as the flush handlers use it.
NextState(st) ==
  CASE st \in {"E_InvX", "E_D"} -> "E"
    [] st \in {"M_InvX", "M_D"} -> "M"
    [] st = "S_D" -> "S"
    [] st \in {"MI", "EI", "SI"} -> "I"
    [] OTHER -> st

isWriteback(ev) == ev.cmd \in PutCmds

RECURSIVE SortedSeq(_)
SortedSeq(S) ==
  IF S = {} THEN <<>>
  ELSE LET m == CHOOSE x \in S : \A y \in S : x <= y
       IN <<m>> \o SortedSeq(S \ {m})

FirstSharer(s) == CHOOSE x \in s.sharers : \A y \in s.sharers : x <= y

\* ------------------------------------------------- engine record helpers
\* s.state, s.sharers, s.owner: the directory line; s.cached, s.data: its
\* data-array binding; s.mshr, s.acks, s.wb, s.dbuf: the MSHR entry of the
\* address; s.out: the messages emitted by the call; s.act: the
\* disposition; s.fatal: the call ended in debug->fatal (or dereferenced a
\* null request pointer).
Ret(s, a) == [s EXCEPT !.act = a]
Fatal(s) == [s EXCEPT !.fatal = TRUE, !.act = "FATAL"]
Emit(s, m) == [s EXCEPT !.out = Append(@, m)]
SetState(s, st) == [s EXCEPT !.state = st]
AddSharer(s, c) == [s EXCEPT !.sharers = @ \cup {c}]
RemoveSharer(s, c) == [s EXCEPT !.sharers = @ \ {c}]
SetOwner(s, c) == [s EXCEPT !.owner = c]
ClearOwner(s) == [s EXCEPT !.owner = NoOwner]
ownerExists(s) == s.owner # NoOwner
numSharers(s) == Cardinality(s.sharers)
isSharer(s, c) == c \in s.sharers
inTransition(s) == s.state \notin Stable

\* MSHR
isHit(s) == s.mshr # <<>>
exists(s) == s.mshr # <<>>
lookupFront(s) == IF s.mshr # <<>> THEN Head(s.mshr) ELSE NoEv
removeFront(s) == [s EXCEPT !.mshr = IF @ # <<>> THEN Tail(@) ELSE @]
incrementAcksNeeded(s) == [s EXCEPT !.acks = @ + 1]
decrementAcksNeeded(s) == [s EXCEPT !.acks = IF @ > 0 THEN @ - 1 ELSE 0]
insertWriteback(s) == [s EXCEPT !.wb = TRUE]
removeWriteback(s) == [s EXCEPT !.wb = FALSE]
setDataBuffer(s, d) == [s EXCEPT !.dbuf = d]
clearDataBuffer(s) == [s EXCEPT !.dbuf = NoData]
setData(s, d) == [s EXCEPT !.data = d]

\* allocateMSHR: the event joins the queue of its address at the tail.
allocateMSHR(s, ev) == [s EXCEPT !.mshr = Append(@, ev)]

\* processInvRequestInMSHR: an invalidation goes to the head of the queue;
\* a blocked one (inProgress) waits behind the head.
processInvRequestInMSHR(s, ev, inProgress) ==
  [s EXCEPT !.mshr = IF inProgress /\ @ # <<>>
                       THEN <<Head(@), ev>> \o Tail(@)
                       ELSE <<ev>> \o @]

\* ------------------------------------------------------------- emitters
RECURSIVE InvSeq(_, _)
InvSeq(dsts, firstCmd) ==
  IF dsts = <<>> THEN <<>>
  ELSE <<Msg(firstCmd, Head(dsts), NoData, FALSE)>> \o InvSeq(Tail(dsts), "Inv")

\* One Inv per sharer, one ack expected for each.
invalidateAllSharers(s) ==
  [s EXCEPT !.out = @ \o InvSeq(SortedSeq(s.sharers), "Inv"),
            !.acks = @ + Cardinality(s.sharers)]

\* A variant that asks no sharer for the data.
invalidateAllSharersNoFetch(s) ==
  [s EXCEPT !.out = @ \o InvSeq(SortedSeq(s.sharers), "Inv"),
            !.acks = @ + Cardinality(s.sharers)]

\* As above, the first sharer gets a FetchInv so that data comes back.
invalidateAllSharersAndFetch(s) ==
  [s EXCEPT !.out = @ \o InvSeq(SortedSeq(s.sharers), "FetchInv"),
            !.acks = @ + Cardinality(s.sharers)]

\* A variant that invalidates the requestor along with the other sharers.
invalidateSharersAndRequestor(s, rqstr, uncached) == invalidateAllSharers(s)

\* The sharers other than the requestor; a FetchInv to the first when the
\* block is uncached and the requestor holds no copy.
otherSharers(s, rqstr) == s.sharers \ {rqstr}
invalidateSharersExceptRequestor(s, rqstr, uncached) ==
  LET needFetch == uncached /\ rqstr \notin s.sharers
  IN [s EXCEPT !.out = @ \o InvSeq(SortedSeq(otherSharers(s, rqstr)),
                                    IF needFetch THEN "FetchInv" ELSE "Inv"),
               !.acks = @ + Cardinality(otherSharers(s, rqstr))]

sendFetchInv(s) ==
  IF ownerExists(s) THEN Emit(s, Msg("FetchInv", s.owner, NoData, FALSE))
  ELSE IF s.sharers # {} THEN Emit(s, Msg("FetchInv", FirstSharer(s), NoData, FALSE))
  ELSE Fatal(s)

sendFetchInvX(s) == Emit(s, Msg("FetchInvX", s.owner, NoData, FALSE))

sendFetch(s) ==
  IF s.sharers # {} THEN Emit(s, Msg("Fetch", FirstSharer(s), NoData, FALSE))
  ELSE Fatal(s)

sendForceInv(s) == Emit(s, Msg("ForceInv", s.owner, NoData, FALSE))

\* Response to a child's request; cmd overrides the default response type.
sendResponseUpCmd(s, ev, cmd, data) == Emit(s, Msg(cmd, ev.src, data, FALSE))
sendResponseUp(s, ev, data) == sendResponseUpCmd(s, ev, RespCmd(ev.cmd), data)

\* Response to the parent's Fetch/FetchInv/FetchInvX.
sendResponseDown(s, ev, data, dirty) ==
  Emit(s, Msg(RespCmd(ev.cmd), ev.src, data, dirty))

\* The response is made from the event at the head of the MSHR.
sendResponseDownFromMSHR(s, ev, dirty) ==
  IF s.mshr = <<>> THEN Fatal(s)
  ELSE Emit(s, Msg(RespCmd(Head(s.mshr).cmd), Head(s.mshr).src, ev.payload, dirty))

sendAckInv(s, ev) == Emit(s, Msg("AckInv", Parent, NoData, FALSE))

sendWritebackAck(s, ev) == Emit(s, Msg("AckPut", ev.src, NoData, FALSE))

sendWritebackFromCache(s, cmd) ==
  Emit(s, Msg(cmd, Parent,
              IF cmd = "PutM" \/ writebackCleanBlocks THEN s.data ELSE NoData,
              cmd = "PutM"))

\* A variant that attaches the data to every writeback.
sendWritebackWithData(s, cmd, data) == Emit(s, Msg(cmd, Parent, data, cmd = "PutM"))

sendWritebackFromMSHR(s, cmd, data) ==
  Emit(s, Msg(cmd, Parent,
              IF cmd = "PutM" \/ writebackCleanBlocks THEN data ELSE NoData,
              cmd = "PutM"))

sendFlushResponse(s, reqEvent, success) ==
  Emit(s, [Msg(RespCmd(reqEvent.cmd), reqEvent.src, NoData, FALSE)
             EXCEPT !.success = success])

\* A variant that forwards only the payload of the flush itself.
forwardFlushOnly(s, origFlush, dirty, cmd) ==
  Emit(s, Msg(cmd, Parent, origFlush.payload, dirty))

forwardFlushLine(s, origFlush, dirty, cmd) ==
  Emit(s, Msg(cmd, Parent,
              IF s.cached THEN s.data
              ELSE IF isHit(s) THEN s.dbuf
              ELSE origFlush.payload,
              dirty))

\* A request is forwarded to the parent unchanged.
forwardMessage(s, ev) == Emit(s, Msg(ev.cmd, Parent, NoData, FALSE))

\* ------------------------------------------------------------- eviction
\* handleEviction, case E and case M (trans: EI/MI, put: PutE/PutM).
evictOwned(s1, isCached, collision, fromDataCache, trans, put) ==
  IF numSharers(s1) > 0 /\ ~fromDataCache THEN
    Ret(SetState(IF isCached \/ collision THEN invalidateAllSharers(s1)
                 ELSE invalidateAllSharersAndFetch(s1), trans), "STALL")
  ELSE IF ownerExists(s1) /\ ~fromDataCache THEN
    Ret(SetState(incrementAcksNeeded(sendFetchInv(s1)), trans), "STALL")
  ELSE IF ~isCached /\ ~collision THEN Fatal(s1)
  ELSE IF fromDataCache /\ (numSharers(s1) > 0 \/ ownerExists(s1)) THEN Ret(s1, "DONE")
  ELSE
    LET w == IF isCached THEN sendWritebackFromCache(s1, put)
             ELSE sendWritebackFromMSHR(s1, put, s1.dbuf)
        x == IF numSharers(w) = 0 /\ ~ownerExists(w) THEN SetState(w, "I") ELSE w
        y == IF expectWritebackAck THEN insertWriteback(x) ELSE x
    IN Ret(y, "DONE")

evictShared(s1, isCached, collision, fromDataCache) ==
  IF numSharers(s1) > 0 /\ ~fromDataCache THEN
    Ret(SetState(IF isCached \/ collision THEN invalidateAllSharers(s1)
                 ELSE invalidateAllSharersAndFetch(s1), "SI"), "STALL")
  ELSE IF ~isCached /\ ~collision THEN Fatal(s1)
  ELSE IF fromDataCache /\ numSharers(s1) > 0 THEN Ret(s1, "DONE")
  ELSE
    LET w == IF isCached THEN sendWritebackFromCache(s1, "PutS")
             ELSE sendWritebackFromMSHR(s1, "PutS", s1.dbuf)
        x == IF numSharers(w) = 0 THEN SetState(w, "I") ELSE w
        y == IF expectWritebackAck THEN insertWriteback(x) ELSE x
    IN Ret(y, "DONE")

\* The Put waiting at the head of the MSHR is merged into the eviction.
evictCollision(s0, waitingEvent) ==
  LET a == IF s0.state = "E" /\ waitingEvent.dirty THEN SetState(s0, "M") ELSE s0
      b == IF isSharer(a, waitingEvent.src) THEN RemoveSharer(a, waitingEvent.src)
           ELSE IF ownerExists(a) THEN ClearOwner(a) ELSE a
  IN removeFront(setDataBuffer(b, waitingEvent.payload))

handleEviction(s0, fromDataCache) ==
  LET st == s0.state
      isCached == s0.cached
      waitingEvent == lookupFront(s0)
      collision == isHit(s0) /\ waitingEvent.cmd \in PutCmds
      s1 == IF collision THEN evictCollision(s0, waitingEvent) ELSE s0
  IN CASE st = "I" -> Ret(s1, "DONE")
       [] st = "S" -> evictShared(s1, isCached, collision, fromDataCache)
       [] st = "E" -> evictOwned(s1, isCached, collision, fromDataCache, "EI", "PutE")
       [] st = "M" -> evictOwned(s1, isCached, collision, fromDataCache, "MI", "PutM")
       [] st \in {"SI", "S_Inv", "E_Inv", "M_Inv", "SM_Inv", "E_InvX", "S_B", "I_B"} ->
            Ret(s1, "STALL")
       [] OTHER -> Fatal(s1)

\* ------------------------------------------------------------- requests
handleGetSRequest(s, ev) ==
  LET st == s.state
      isCached == s.cached
  IN CASE st = "I" ->
            Ret(allocateMSHR(SetState(forwardMessage(s, ev), "IS"), ev), "STALL")
       [] st = "S" ->
            IF isCached THEN
              Ret(sendResponseUp(AddSharer(s, ev.src), ev, s.data), "DONE")
            ELSE
              Ret(allocateMSHR(SetState(incrementAcksNeeded(sendFetch(s)), "S_D"), ev),
                  "STALL")
       [] st \in {"E", "M"} ->
            IF ownerExists(s) THEN
              Ret(allocateMSHR(SetState(incrementAcksNeeded(sendFetchInvX(s)),
                                        IF st = "E" THEN "E_InvX" ELSE "M_InvX"), ev),
                  "STALL")
            ELSE IF isCached THEN
              IF protocol /\ numSharers(s) = 0 THEN
                Ret(SetOwner(sendResponseUpCmd(s, ev, "GetXResp", s.data), ev.src), "DONE")
              ELSE
                Ret(AddSharer(sendResponseUp(s, ev, s.data), ev.src), "DONE")
            ELSE
              Ret(allocateMSHR(SetState(incrementAcksNeeded(sendFetch(s)),
                                        IF st = "E" THEN "E_D" ELSE "M_D"), ev),
                  "STALL")
       [] OTHER -> Fatal(s)

\* handleGetXRequest, case E falling into case M.
getXOwned(s, ev, isCached) ==
  LET inv == invalidateSharersExceptRequestor(s, ev.src, ~isCached)
  IN IF otherSharers(s, ev.src) # {} THEN
       Ret(SetState(inv, "M_Inv"), "STALL")
     ELSE IF ownerExists(s) THEN
       Ret(allocateMSHR(SetState(incrementAcksNeeded(sendFetchInv(s)), "M_Inv"), ev),
           "STALL")
     ELSE
       Ret(sendResponseUp(RemoveSharer(SetOwner(s, ev.src), ev.src), ev,
                          IF isCached THEN s.data ELSE NoData), "DONE")

\* A variant that forwards every write request to the parent.
handleGetXForwarding(s0, ev) ==
  Ret(allocateMSHR(SetState(forwardMessage(s0, ev), "SM"), ev), "STALL")

handleGetXRequest(s0, ev) ==
  LET isCached == s0.cached
      upgrade == s0.state = "S" /\ lastLevel
      st == IF upgrade THEN "M" ELSE s0.state
      s == IF upgrade THEN SetState(s0, "M") ELSE s0
  IN CASE st = "I" ->
            Ret(allocateMSHR(SetState(forwardMessage(s, ev), "IM"), ev), "STALL")
       [] st = "S" ->
            LET f == forwardMessage(s, ev)
                inv == invalidateSharersExceptRequestor(f, ev.src, FALSE)
            IN Ret(allocateMSHR(SetState(inv, IF otherSharers(s, ev.src) # {}
                                               THEN "SM_Inv" ELSE "SM"), ev), "STALL")
       [] st = "E" -> getXOwned(SetState(s, "M"), ev, isCached)
       [] st = "M" -> getXOwned(s, ev, isCached)
       [] st = "SM" -> Ret(allocateMSHR(s, ev), "STALL")
       [] OTHER -> Fatal(s)

\* handleRequest.  miss: the address has no directory line (the line is
\* invalid and unbound); allocOK: allocateLine found a line for it.
handleRequest(s, ev, miss, allocOK) ==
  IF ~miss /\ inTransition(s) THEN Ret(allocateMSHR(s, ev), "STALL")
  ELSE IF miss /\ ~allocOK THEN Ret(allocateMSHR(s, ev), "STALL")
  ELSE IF ev.cmd = "GetS" THEN handleGetSRequest(s, ev)
  ELSE IF ev.cmd \in {"GetX", "GetSX"} THEN handleGetXRequest(s, ev)
  ELSE Fatal(s)

\* ---------------------------------------------------------- replacements
\* Put raced with a Fetch (S_D, E_D, M_D): stable is the state the fetch
\* returns to, put the writeback command of that state.
putSDuringFetch(s0, ev, req, hasReq, stable, put) ==
  LET s == SetState(s0, stable)
  IN IF ~hasReq THEN Fatal(s)
     ELSE IF req.cmd = "Fetch" THEN
       IF ~s.cached /\ numSharers(s) = 0 THEN
         Ret(SetState(sendWritebackFromMSHR(s, put, ev.payload), "I"), "DONE")
       ELSE Ret(sendResponseDownFromMSHR(s, ev, FALSE), "DONE")
     ELSE IF req.cmd = "GetS" THEN
       IF stable # "S" /\ numSharers(s) = 0 THEN
         Ret(sendResponseUpCmd(SetOwner(s, req.src), req, "GetXResp", ev.payload), "DONE")
       ELSE
         Ret(sendResponseUp(AddSharer(s, req.src), req, ev.payload), "DONE")
     ELSE Fatal(s)

\* Put raced with an eviction (SI, EI, MI).
putSDuringEvict(s, ev, hasReq, put) ==
  IF ~hasReq THEN Fatal(s)
  ELSE LET w == sendWritebackFromMSHR(s, put, ev.payload)
           x == IF expectWritebackAck THEN insertWriteback(w) ELSE w
       IN Ret(SetState(x, "I"), "DONE")

putSInSMInv(s, ev, req, hasReq) ==
  IF ~hasReq THEN Fatal(s)
  ELSE IF req.cmd = "Inv" THEN
    IF numSharers(s) > 0 THEN Ret(invalidateAllSharers(s), "IGNORE")
    ELSE Ret(SetState(sendAckInv(s, req), "IM"), "DONE")
  ELSE IF req.cmd = "FetchInv" THEN
    IF numSharers(s) > 0 THEN Ret(invalidateAllSharers(s), "IGNORE")
    ELSE Ret(SetState(sendResponseDownFromMSHR(s, ev, FALSE), "IM"), "DONE")
  ELSE Ret(SetState(s, "SM"), "DONE")

\* ubFirst: the value of *(sharers->begin()) == src when the sharer set is
\* empty (the iterator is past the end).
handlePutSRequest(s0, ev, ubFirst) ==
  LET st == s0.state
      hasReq == exists(s0)
      req == lookupFront(s0)
      first == IF s0.sharers = {} THEN ubFirst ELSE FirstSharer(s0) = ev.src
      s1 == IF st \in {"S_D", "E_D", "SM_D", "M_D"}
              THEN (IF first THEN decrementAcksNeeded(s0) ELSE s0)
              ELSE (IF s0.acks > 0 THEN decrementAcksNeeded(s0) ELSE s0)
      s2 == IF isSharer(s1, ev.src) THEN RemoveSharer(s1, ev.src) ELSE s1
      s == IF s2.cached THEN setData(s2, ev.payload)
           ELSE IF isHit(s2) THEN setDataBuffer(s2, ev.payload) ELSE s2
  IN IF s.acks # 0 THEN Ret(s, "IGNORE")
     ELSE CASE st \in {"I", "S", "E", "M", "S_B"} -> Ret(sendWritebackAck(s, ev), "DONE")
            [] st = "SI" -> putSDuringEvict(s, ev, hasReq, "PutS")
            [] st = "EI" -> putSDuringEvict(s, ev, hasReq, "PutE")
            [] st = "MI" -> putSDuringEvict(s, ev, hasReq, "PutM")
            [] st = "S_Inv" ->
                 IF ~hasReq THEN Fatal(s)
                 ELSE IF req.cmd = "Inv" THEN Ret(SetState(sendAckInv(s, req), "I"), "DONE")
                 ELSE Ret(SetState(sendResponseDownFromMSHR(s, ev, FALSE), "I"), "DONE")
            [] st = "SB_Inv" ->
                 IF ~hasReq THEN Fatal(s)
                 ELSE Ret(SetState(sendAckInv(s, req), "I_B"), "DONE")
            [] st = "S_D" -> putSDuringFetch(s, ev, req, hasReq, "S", "PutS")
            [] st = "E_D" -> putSDuringFetch(s, ev, req, hasReq, "E", "PutE")
            [] st = "M_D" -> putSDuringFetch(s, ev, req, hasReq, "M", "PutM")
            [] st = "E_Inv" ->
                 IF ~hasReq THEN Fatal(s)
                 ELSE IF req.cmd = "FetchInv" THEN
                   Ret(SetState(sendResponseDown(s, req, ev.payload, ev.dirty), "I"), "DONE")
                 ELSE Ret(s, "DONE")
            [] st = "E_InvX" ->
                 LET x == SetState(s, "S")
                 IN IF ~hasReq THEN Fatal(x)
                    ELSE IF req.cmd = "FetchInvX" THEN
                      IF ~x.cached /\ numSharers(x) = 0 THEN
                        Ret(SetState(sendWritebackFromMSHR(x, "PutE", ev.payload), "I"), "DONE")
                      ELSE Ret(sendResponseDownFromMSHR(x, ev, FALSE), "DONE")
                    ELSE Fatal(x)
            [] st = "M_Inv" ->
                 IF ~hasReq THEN Fatal(s)
                 ELSE IF req.cmd = "FetchInv" THEN
                   Ret(SetState(sendResponseDown(s, req, ev.payload, TRUE), "I"), "DONE")
                 ELSE
                   Ret(SetState(sendResponseUp(RemoveSharer(SetOwner(s, req.src), req.src),
                                               req, ev.payload), "M"), "DONE")
            [] st = "SM_Inv" -> putSInSMInv(s, ev, req, hasReq)
            [] st = "SM_D" ->
                 IF ~hasReq THEN Fatal(s)
                 ELSE IF req.cmd = "Fetch" THEN
                   Ret(SetState(sendResponseDownFromMSHR(s, ev, FALSE), "SM"), "DONE")
                 ELSE Ret(s, "DONE")
            [] OTHER -> Fatal(s)

\* handlePutMRequest, E_InvX and M_InvX: the owner's Put raced with the
\* FetchInvX sent to it.  mstate: the line was M_InvX.
putMDuringInvX(s0, ev, req, hasReq, isCached, mstate) ==
  LET s == ClearOwner(s0)
  IN IF ~hasReq THEN Fatal(s)
     ELSE IF req.cmd = "FetchInvX" THEN
       IF ~isCached THEN
         LET w == SetState(sendWritebackFromMSHR(s,
                     IF mstate \/ ev.dirty THEN "PutM" ELSE "PutE", ev.payload), "I")
         IN Ret(IF expectWritebackAck THEN insertWriteback(w) ELSE w, "DONE")
       ELSE
         Ret(SetState(sendResponseDownFromMSHR(s, ev, mstate \/ ev.cmd = "PutM"), "S"),
             "DONE")
     ELSE
       LET r == IF protocol
                  THEN SetOwner(sendResponseUpCmd(s, req, "GetXResp", ev.payload), req.src)
                  ELSE AddSharer(sendResponseUp(s, req, ev.payload), req.src)
       IN Ret(SetState(r, IF mstate \/ ev.dirty THEN "M" ELSE "E"), "DONE")

handlePutMRequest(s0, ev) ==
  LET st == s0.state
      hasReq == exists(s0)
      req == lookupFront(s0)
      isCached == s0.cached
      s1 == IF isCached THEN setData(s0, ev.payload)
            ELSE IF isHit(s0) THEN setDataBuffer(s0, ev.payload) ELSE s0
      s == IF s1.acks > 0 THEN decrementAcksNeeded(s1) ELSE s1
  IN CASE st \in {"E", "M"} ->
            LET a == IF st = "E" /\ ev.dirty THEN SetState(s, "M") ELSE s
                b == sendWritebackAck(ClearOwner(a), ev)
                w == sendWritebackFromMSHR(b, IF b.state = "E" THEN "PutE" ELSE "PutM",
                                           ev.payload)
                x == IF expectWritebackAck THEN insertWriteback(w) ELSE w
            IN IF ~isCached THEN Ret(SetState(x, "I"), "DONE") ELSE Ret(b, "DONE")
       [] st \in {"EI", "MI"} ->
            LET a == IF st = "EI" /\ ev.dirty THEN SetState(s, "MI") ELSE s
                w == sendWritebackFromMSHR(ClearOwner(a),
                                           IF a.state = "EI" THEN "PutE" ELSE "PutM",
                                           ev.payload)
                x == IF expectWritebackAck THEN insertWriteback(w) ELSE w
            IN Ret(SetState(x, "I"), "DONE")
       [] st = "E_InvX" -> putMDuringInvX(s, ev, req, hasReq, isCached, FALSE)
       [] st = "M_InvX" -> putMDuringInvX(s, ev, req, hasReq, isCached, TRUE)
       [] st \in {"E_Inv", "M_Inv"} ->
            LET a == IF st = "E_Inv" /\ ev.cmd = "PutM" THEN SetState(s, "M_Inv") ELSE s
                b == ClearOwner(a)
            IN IF ~hasReq THEN Fatal(b)
               ELSE IF req.cmd \in {"GetX", "GetSX"} THEN
                 Ret(SetOwner(sendResponseUp(SetState(b, "M"), req, ev.payload), req.src),
                     "DONE")
               ELSE
                 Ret(SetState(sendResponseDownFromMSHR(b, ev, b.state = "M_Inv"), "I"),
                     "DONE")
       [] OTHER -> Fatal(s)

\* allocOK: allocateDirCacheLine found a data line for the block.
handleReplacement(s0, ev, allocOK, ubFirst) ==
  IF ~s0.cached /\ ~allocOK /\ ~inTransition(s0) THEN Ret(allocateMSHR(s0, ev), "STALL")
  ELSE
    LET s == IF ~s0.cached /\ allocOK THEN [s0 EXCEPT !.cached = TRUE] ELSE s0
        hasReq == exists(s)
        r == IF ev.cmd = "PutS" THEN handlePutSRequest(s, ev, ubFirst)
             ELSE IF ev.cmd \in {"PutE", "PutM"} THEN handlePutMRequest(s, ev)
             ELSE Fatal(s)
        d == IF r.act \in {"DONE", "STALL"} /\ hasReq THEN removeFront(r) ELSE r
    IN IF r.fatal THEN r
       ELSE IF r.act \in {"STALL", "BLOCK"} THEN allocateMSHR(d, ev) ELSE d

\* ---------------------------------------------------------- invalidations
\* handleInv, the loop that resolves races with waiting PutS requests.
RECURSIVE consumePutS(_)
consumePutS(s) ==
  IF exists(s) /\ lookupFront(s).cmd = "PutS"
    THEN consumePutS(removeFront(decrementAcksNeeded(RemoveSharer(s, lookupFront(s).src))))
    ELSE s

handleInv(s, ev) ==
  LET st == s.state
      inv == IF st = "S" THEN "S_Inv" ELSE IF st = "S_B" THEN "SB_Inv" ELSE "SM_Inv"
      fin == IF st = "S" THEN "I" ELSE IF st = "S_B" THEN "I_B" ELSE "IM"
      a == IF numSharers(s) > 0
             THEN consumePutS(SetState(invalidateAllSharers(s), inv))
             ELSE s
  IN CASE st = "I_B" -> Ret(s, "DONE")
       [] st \in {"S", "S_B", "SM"} ->
            IF numSharers(s) > 0 /\ a.acks > 0 THEN Ret(a, "STALL")
            ELSE Ret(SetState(sendAckInv(a, ev), fin), "DONE")
       [] st \in {"SI", "S_Inv", "S_D"} -> Ret(s, "BLOCK")
       [] st = "SM_Inv" -> Ret(s, "STALL")
       [] OTHER -> Fatal(s)

\* handleForceInv, the loop that treats waiting replacements as done.
RECURSIVE ackWritebacks(_)
ackWritebacks(s) ==
  IF exists(s) /\ isWriteback(lookupFront(s))
    THEN LET c == lookupFront(s)
             a == IF isSharer(s, c.src) THEN RemoveSharer(s, c.src) ELSE s
             b == IF ownerExists(a) THEN ClearOwner(a) ELSE a
         IN ackWritebacks(removeFront(sendWritebackAck(b, c)))
    ELSE s

handleForceInv(s0, ev) ==
  LET st == s0.state
      s == ackWritebacks(s0)
      inv == IF st = "S" THEN "S_Inv" ELSE IF st = "S_B" THEN "SB_Inv" ELSE "SM_Inv"
      fin == IF st = "S" THEN "I" ELSE IF st = "S_B" THEN "I_B" ELSE "IM"
      a == IF numSharers(s) > 0 THEN SetState(invalidateAllSharers(s), inv) ELSE s
      own == IF st = "E" THEN "E_Inv" ELSE "M_Inv"
  IN CASE st \in {"I", "IS", "IM", "I_B"} -> Ret(s, "IGNORE")
       [] st \in {"S", "S_B", "SM"} ->
            IF numSharers(s) > 0 /\ a.acks > 0 THEN Ret(a, "STALL")
            ELSE Ret(SetState(sendAckInv(a, ev), fin), "DONE")
       [] st \in {"E", "M"} ->
            IF ownerExists(s) THEN
              Ret(SetState(incrementAcksNeeded(sendForceInv(s)), own), "STALL")
            ELSE IF numSharers(s) > 0 THEN
              Ret(SetState(invalidateAllSharers(s), own), "STALL")
            ELSE Ret(SetState(sendAckInv(s, ev), "I"), "DONE")
       [] st = "SI" -> Ret(SetState(s, "S_Inv"), "STALL")
       [] st = "EI" -> Ret(SetState(s, "E_Inv"), "STALL")
       [] st = "MI" -> Ret(SetState(s, "M_Inv"), "STALL")
       [] st \in {"S_D", "E_D", "M_D", "SM_D", "E_InvX", "M_InvX", "M_Inv", "S_Inv",
                  "E_Inv", "SM_Inv", "SB_Inv"} ->
            IF ~isHit(s) THEN Fatal(s)
            ELSE IF lookupFront(s).cmd \in FlushCmds THEN Ret(s, "STALL")
            ELSE Ret(s, "BLOCK")
       [] OTHER -> Fatal(s)

\* hasColl: the MSHR head is a Put and was passed as collisionEvent.
handleFetch(s, ev, hasColl) ==
  LET st == s.state
  IN CASE st \in {"I", "IS", "IM"} -> Ret(s, "IGNORE")
       [] st \in {"S", "SM"} ->
            IF s.cached THEN Ret(sendResponseDown(s, ev, s.data, FALSE), "DONE")
            ELSE IF hasColl THEN
              Ret(sendResponseDown(s, ev, lookupFront(s).payload, FALSE), "DONE")
            ELSE
              LET f == sendFetch(s)
              IN IF f.fatal THEN f
                 ELSE Ret(SetState(incrementAcksNeeded(f),
                                   IF st = "S" THEN "S_D" ELSE "SM_D"), "STALL")
       [] st \in {"S_Inv", "SI", "S_D"} -> Ret(s, "BLOCK")
       [] OTHER -> Fatal(s)

\* handleFetchInv, cases S, SM, E and M once owner and collision are out of
\* the way.  inv: the state while sharers are invalidated, fin: the state
\* after the response, dirty: the response's dirty flag.
fetchInvShared(s, ev, isCached, collision, inv, fin, dirty, needData) ==
  IF numSharers(s) > 0 THEN
    Ret(SetState(IF isCached \/ collision THEN invalidateAllSharers(s)
                 ELSE invalidateAllSharersAndFetch(s), inv), "STALL")
  ELSE IF ~s.cached /\ needData THEN Fatal(s)
  ELSE Ret(SetState(sendResponseDown(s, ev, IF collision THEN s.dbuf ELSE s.data, dirty),
                    fin), "DONE")

fetchInvOwned(s, ev, isCached, collision, inv, dirty) ==
  IF ownerExists(s) THEN
    Ret(SetState(incrementAcksNeeded(sendFetchInv(s)), inv), "STALL")
  ELSE fetchInvShared(s, ev, isCached, collision, inv, "I", dirty, ~collision)

\* hasColl: a collisionEvent (the MSHR head) was passed.
handleFetchInv(s0, ev, hasColl) ==
  LET isCached == s0.cached
      c == lookupFront(s0)
      collision == hasColl /\ isWriteback(c)
      a == IF isSharer(s0, c.src) THEN RemoveSharer(s0, c.src) ELSE s0
      b == setDataBuffer(IF ownerExists(a) THEN ClearOwner(a) ELSE a, c.payload)
      d == IF s0.state = "E" /\ c.dirty THEN SetState(b, "M") ELSE b
      s == IF collision THEN removeFront(sendWritebackAck(d, c)) ELSE s0
      st == IF collision THEN "M" ELSE s0.state
  IN CASE st \in {"I", "IS", "IM", "I_B"} -> Ret(s, "IGNORE")
       [] st = "S" -> fetchInvShared(s, ev, isCached, collision, "S_Inv", "I", FALSE, ~collision)
       [] st = "SM" -> fetchInvShared(s, ev, isCached, collision, "SM_Inv", "IM", FALSE, TRUE)
       [] st = "S_B" ->
            IF numSharers(s) > 0
              THEN Ret(SetState(invalidateAllSharers(s), "SB_Inv"), "STALL")
              ELSE Ret(SetState(sendAckInv(s, ev), "I_B"), "DONE")
       [] st = "E" -> fetchInvOwned(s, ev, isCached, collision, "E_Inv", FALSE)
       [] st = "M" -> fetchInvOwned(s, ev, isCached, collision, "M_Inv", TRUE)
       [] st = "EI" -> Ret(SetState(s, "E_Inv"), "STALL")
       [] st = "MI" -> Ret(SetState(s, "M_Inv"), "STALL")
       [] st \in {"S_D", "E_D", "M_D", "E_Inv", "E_InvX", "M_Inv", "M_InvX"} ->
            IF ~hasColl THEN Fatal(s)
            ELSE IF lookupFront(s).cmd \in FlushCmds THEN Ret(s, "STALL")
            ELSE Ret(s, "BLOCK")
       [] OTHER -> Fatal(s)

\* handleFetchInvX, case E and case M (inv: E_InvX/M_InvX).  On a collision
\* the waiting Put of the owner is turned into a PutS.
fetchInvXOwned(s, ev, isCached, collision, inv, dirty) ==
  LET c == lookupFront(s)
  IN IF collision THEN
       LET a == IF ownerExists(s)
                  THEN [AddSharer(ClearOwner(s), c.src) EXCEPT !.mshr[1].cmd = "PutS"]
                  ELSE s
       IN Ret(sendResponseDown(SetState(a, "S"), ev, c.payload,
                               IF inv = "M_InvX" THEN TRUE ELSE c.dirty), "DONE")
     ELSE IF ownerExists(s) THEN
       Ret(SetState(incrementAcksNeeded(sendFetchInvX(s)), inv), "STALL")
     ELSE IF isCached THEN
       Ret(SetState(sendResponseDown(s, ev, s.data, dirty), "S"), "DONE")
     ELSE
       LET f == sendFetch(s)
       IN IF f.fatal THEN f ELSE Ret(SetState(incrementAcksNeeded(f), inv), "STALL")

handleFetchInvX(s0, ev) ==
  LET isCached == s0.cached
      c == lookupFront(s0)
      collision == exists(s0) /\ isWriteback(c)
      s == IF collision /\ s0.state = "E" /\ c.dirty THEN SetState(s0, "M") ELSE s0
      st == IF collision THEN "M" ELSE s0.state
  IN CASE st \in {"I", "IS", "IM", "I_B", "S_B"} -> Ret(s, "IGNORE")
       [] st = "E" -> fetchInvXOwned(s, ev, isCached, collision, "E_InvX", FALSE)
       [] st = "M" -> fetchInvXOwned(s, ev, isCached, collision, "M_InvX", TRUE)
       [] st \in {"E_D", "M_D", "EI", "MI", "E_Inv", "E_InvX", "M_Inv", "M_InvX"} ->
            IF ~exists(s) THEN Fatal(s)
            ELSE IF lookupFront(s).cmd \in FlushCmds THEN Ret(s, "STALL")
            ELSE Ret(s, "BLOCK")
       [] OTHER -> Fatal(s)

\* handleInvalidationRequest from the switch on the command onwards: the
\* handler of the command, then the event is kept in the MSHR on STALL
\* and BLOCK.
invalidationByCommand(s, ev) ==
    LET r == CASE ev.cmd = "Inv" -> handleInv(s, ev)
               [] ev.cmd = "Fetch" -> handleFetch(s, ev, exists(s) /\ isWriteback(lookupFront(s)))
               [] ev.cmd = "FetchInv" -> handleFetchInv(s, ev, exists(s))
               [] ev.cmd = "FetchInvX" -> handleFetchInvX(s, ev)
               [] ev.cmd = "ForceInv" -> handleForceInv(s, ev)
               [] OTHER -> Fatal(s)
    IN IF r.fatal THEN r
       ELSE IF r.act = "STALL" THEN processInvRequestInMSHR(r, ev, FALSE)
       ELSE IF r.act = "BLOCK" THEN processInvRequestInMSHR(r, ev, TRUE)
       ELSE r

\* A variant that does not look at the writeback marker.
handleInvalidationRequestUnmarked(s, ev, full) ==
  IF full THEN Ret(processInvRequestInMSHR(s, ev, FALSE), "STALL")
  ELSE invalidationByCommand(s, ev)

\* A variant that takes the invalidation whether or not the MSHR has room.
handleInvalidationWithRoom(s, ev, full) ==
  IF s.wb THEN Ret(removeWriteback(s), "DONE") ELSE invalidationByCommand(s, ev)

\* full: mshr_->isFull(), the MSHR is shared with the other addresses.
handleInvalidationRequest(s, ev, full) ==
  IF ~s.wb /\ full THEN Ret(processInvRequestInMSHR(s, ev, FALSE), "STALL")
  ELSE IF s.wb THEN Ret(removeWriteback(s), "DONE")
  ELSE invalidationByCommand(s, ev)

\* ----------------------------------------------------------------- flush
\* Store the payload of a flush, in the data line or in the MSHR buffer.
flushData(s, ev) ==
  IF ev.payload = NoData THEN s
  ELSE IF s.cached THEN setData(s, ev.payload)
  ELSE IF isHit(s) THEN setDataBuffer(s, ev.payload)
  ELSE s

\* hasReq: a request other than the flush itself is at the head of the MSHR
\* and was passed as reqEvent.
RECURSIVE handleFlushLineRequest(_, _, _)
handleFlushLineRequest(s0, ev, hasReq) ==
  LET st == s0.state
      s == flushData(s0, ev)
      req == lookupFront(s)
      isOwner == s.owner = ev.src
      forward(x) ==
        Ret(SetState(forwardFlushLine(x, ev, x.state = "M", "FlushLine"),
                     IF x.state # "I" THEN "S_B" ELSE "I_B"), "STALL")
  IN CASE st \in {"I", "S", "I_B", "S_B"} ->
            IF hasReq THEN Ret(s, "STALL") ELSE forward(s)
       [] st \in {"E", "M"} ->
            LET a == IF isOwner
                       THEN LET b == AddSharer(ClearOwner(s), ev.src)
                            IN IF ev.dirty THEN SetState(b, "M") ELSE b
                       ELSE s
            IN IF ownerExists(a) THEN
                 Ret(SetState(incrementAcksNeeded(sendFetchInvX(a)),
                              IF st = "E" THEN "E_InvX" ELSE "M_InvX"), "STALL")
               ELSE forward(a)
       [] st \in {"IM", "IS", "SM", "SM_D", "S_D", "E_D", "M_D", "S_Inv", "SI", "SM_Inv"} ->
            Ret(s, "STALL")
       [] st \in {"MI", "EI", "M_Inv", "E_Inv"} ->
            LET a == IF isOwner THEN AddSharer(ClearOwner(s), ev.src) ELSE s
                b == IF ev.dirty /\ st = "EI" THEN SetState(a, "MI")
                     ELSE IF ev.dirty /\ st = "E_Inv" THEN SetState(a, "M_Inv")
                     ELSE a
            IN Ret(b, "STALL")
       [] st \in {"M_InvX", "E_InvX"} ->
            LET a == IF isOwner
                       THEN LET b == decrementAcksNeeded(AddSharer(ClearOwner(s), ev.src))
                            IN IF ev.dirty THEN SetState(b, "M_InvX") ELSE b
                       ELSE s
                st2 == IF isOwner /\ ev.dirty THEN "M_InvX" ELSE st
            IN IF a.acks # 0 THEN Ret(a, "STALL")
               ELSE IF ~hasReq THEN Fatal(a)
               ELSE IF req.cmd = "FetchInvX" THEN
                 Ret(SetState(sendResponseDownFromMSHR(a, ev, st2 = "M_InvX"), "S"), "DONE")
               ELSE IF req.cmd = "FlushLine" THEN
                 handleFlushLineRequest(SetState(a, NextState(st2)), req, FALSE)
               ELSE IF req.cmd = "FetchInv" THEN
                 handleFetchInv(SetState(a, NextState(st2)), req, FALSE)
               ELSE
                 Ret(SetState(sendResponseUp(AddSharer(a, req.src), req,
                                             IF a.cached THEN a.data ELSE a.dbuf),
                              NextState(st2)), "DONE")
       [] OTHER -> Fatal(s)

\* The flushing child gives up its copy: sharer first (M_Inv, E_Inv) or
\* owner first (MI, EI); either way one ack less is expected.
flushInvDropSharerFirst(s, ev) ==
  IF isSharer(s, ev.src) THEN decrementAcksNeeded(RemoveSharer(s, ev.src))
  ELSE IF s.owner = ev.src THEN decrementAcksNeeded(ClearOwner(s))
  ELSE s

flushInvDropOwnerFirst(s, ev) ==
  IF s.owner = ev.src THEN decrementAcksNeeded(ClearOwner(s))
  ELSE IF isSharer(s, ev.src) THEN decrementAcksNeeded(RemoveSharer(s, ev.src))
  ELSE s

\* handleFlushLineInvRequest, case M_InvX and case E_InvX; st is the value
\* of the local variable state, which is E_Inv or M_Inv when control fell
\* through from those cases.
flushInvInvX(s0, ev, req, hasReq, isCached, st) ==
  LET s == IF s0.owner = ev.src THEN ClearOwner(decrementAcksNeeded(s0)) ELSE s0
      m == st = "M_InvX" \/ ev.dirty
  IN IF s.acks # 0 THEN Ret(s, "STALL")
     ELSE IF ~hasReq THEN Fatal(s)
     ELSE
       LET a == IF req.cmd = "FetchInvX" THEN
                  IF ~isCached THEN
                    LET w == sendWritebackFromMSHR(s, IF m THEN "PutM" ELSE "PutE", ev.payload)
                    IN IF expectWritebackAck THEN insertWriteback(w) ELSE w
                  ELSE sendResponseDownFromMSHR(s, ev, m)
                ELSE IF protocol THEN
                  AddSharer(sendResponseUpCmd(s, req, "GetXResp", ev.payload), req.src)
                ELSE AddSharer(sendResponseUp(s, req, ev.payload), req.src)
       IN IF a.fatal THEN a ELSE Ret(SetState(a, IF m THEN "M" ELSE "E"), "DONE")

flushInvEInv(s0, ev, req, hasReq, isCached, st) ==
  LET s == flushInvDropSharerFirst(s0, ev)
  IN IF s.acks # 0 THEN Ret(s, "STALL")
     ELSE IF ~hasReq THEN Fatal(s)
     ELSE IF req.cmd = "FetchInv" THEN
       Ret(SetState(sendResponseDown(s, req, ev.payload, ev.dirty), "I"), "DONE")
     ELSE IF req.cmd = "FlushLineInv" THEN
       Ret(SetState(forwardFlushLine(s, req, req.dirty, "FlushLineInv"), "I_B"), "STALL")
     ELSE flushInvInvX(s, ev, req, hasReq, isCached, st)

flushInvMInv(s0, ev, req, hasReq, isCached) ==
  LET s == flushInvDropSharerFirst(s0, ev)
  IN IF s.acks # 0 THEN Ret(s, "STALL")
     ELSE IF ~hasReq THEN Fatal(s)
     ELSE IF req.cmd = "FetchInv" THEN
       Ret(SetState(sendResponseDown(s, req, ev.payload, TRUE), "I"), "DONE")
     ELSE IF req.cmd \in {"GetX", "GetSX"} THEN
       Ret(SetState(sendResponseUp(RemoveSharer(SetOwner(s, req.src), req.src), req,
                                   IF isCached THEN s.data ELSE s.dbuf), "M"), "DONE")
     ELSE IF req.cmd = "FlushLineInv" THEN
       Ret(SetState(forwardFlushLine(s, req, TRUE, "FlushLineInv"), "I_B"), "STALL")
     ELSE flushInvEInv(s, ev, req, hasReq, isCached, "M_Inv")

\* handleFlushLineInvRequest, case S_D, E_D and M_D: the flush raced with
\* the Fetch sent for the request at the head of the MSHR.
flushInvDuringFetch(s0, ev, req, hasReq, first, st) ==
  LET a == IF first THEN decrementAcksNeeded(s0) ELSE s0
      b == IF isSharer(a, ev.src) THEN RemoveSharer(a, ev.src) ELSE a
      s == SetState(b, NextState(st))
      put == IF st = "M_D" \/ ev.dirty THEN "PutM"
             ELSE IF st = "E_D" THEN "PutE" ELSE "PutS"
  IN IF b.acks # 0 THEN Ret(b, "STALL")
     ELSE IF ~hasReq THEN Fatal(s)
     ELSE IF req.cmd = "Fetch" THEN
       IF ~s.cached /\ numSharers(s) = 0 THEN
         Ret(SetState(sendWritebackFromMSHR(s, put, ev.payload), "I"), "DONE")
       ELSE Ret(sendResponseDownFromMSHR(s, ev, st = "M_D" \/ ev.dirty), "DONE")
     ELSE IF req.cmd = "GetS" THEN
       IF numSharers(s) > 0 \/ st = "S_D" THEN
         Ret(sendResponseUp(AddSharer(s, req.src), req, ev.payload), "DONE")
       ELSE Ret(sendResponseUpCmd(SetOwner(s, req.src), req, "GetXResp", ev.payload), "DONE")
     ELSE Fatal(s)

\* Writeback that ends an eviction once the flushing child was the last
\* holder (SI, EI, MI).
flushInvEvict(s, isCached, put) ==
  LET w == IF isCached THEN sendWritebackFromCache(s, put)
           ELSE sendWritebackFromMSHR(s, put, s.dbuf)
      x == IF expectWritebackAck THEN insertWriteback(w) ELSE w
  IN Ret(SetState(x, "I"), "DONE")

handleFlushLineInvRequest(s0, ev, hasReq, ubFirst) ==
  LET isCached == s0.cached
      s1 == flushData(s0, ev)
      wasOwner == s0.state \in {"M", "E"} /\ s1.owner = ev.src
      s == IF wasOwner
             THEN (IF ev.dirty THEN SetState(ClearOwner(s1), "M") ELSE ClearOwner(s1))
             ELSE s1
      st == s.state
      req == lookupFront(s)
      first == IF s.sharers = {} THEN ubFirst ELSE FirstSharer(s) = ev.src
      drop == IF isSharer(s, ev.src) THEN RemoveSharer(s, ev.src) ELSE s
      dropAck == IF isSharer(s, ev.src)
                   THEN decrementAcksNeeded(RemoveSharer(s, ev.src)) ELSE s
      forward(x) ==
        Ret(SetState(forwardFlushLine(x, ev, x.state = "M", "FlushLineInv"), "I_B"), "STALL")
  IN CASE st = "I" -> IF hasReq THEN Ret(s, "STALL") ELSE forward(s)
       [] st = "S" ->
            IF numSharers(drop) > 0
              THEN Ret(SetState(invalidateAllSharers(drop), "S_Inv"), "STALL")
              ELSE forward(drop)
       [] st \in {"E", "M"} ->
            IF ownerExists(drop) THEN
              Ret(SetState(incrementAcksNeeded(sendFetchInv(drop)),
                           IF st = "E" THEN "E_Inv" ELSE "M_Inv"), "STALL")
            ELSE IF numSharers(drop) > 0 THEN
              Ret(SetState(invalidateAllSharers(drop),
                           IF st = "E" THEN "E_Inv" ELSE "M_Inv"), "STALL")
            ELSE forward(drop)
       [] st \in {"IM", "IS", "SM"} -> Ret(s, "STALL")
       [] st = "SM_D" ->
            LET a == IF first THEN decrementAcksNeeded(s) ELSE s
            IN IF a.acks # 0 THEN Ret(a, "STALL")
               ELSE IF ~hasReq THEN Fatal(a)
               ELSE IF req.cmd = "Fetch" THEN
                 Ret(sendResponseDownFromMSHR(SetState(a, "SM"), ev, FALSE), "DONE")
               ELSE Ret(a, "STALL")
       [] st \in {"S_D", "E_D", "M_D"} -> flushInvDuringFetch(s, ev, req, hasReq, first, st)
       [] st = "S_Inv" ->
            IF dropAck.acks # 0 THEN Ret(dropAck, "STALL")
            ELSE IF ~hasReq THEN Fatal(dropAck)
            ELSE IF req.cmd = "Inv" THEN
              Ret(SetState(sendAckInv(dropAck, req), "I"), "DONE")
            ELSE IF req.cmd \in {"Fetch", "FetchInv", "FetchInvX"} THEN
              Ret(SetState(sendResponseDownFromMSHR(dropAck, ev, FALSE), "I"), "DONE")
            ELSE IF req.cmd = "FlushLineInv" THEN
              Ret(SetState(forwardFlushLine(dropAck, req, FALSE, "FlushLineInv"), "I_B"),
                  "STALL")
            ELSE Ret(dropAck, "DONE")
       [] st = "SM_Inv" ->
            IF dropAck.acks # 0 THEN Ret(dropAck, "STALL")
            ELSE IF ~hasReq THEN Fatal(dropAck)
            ELSE IF req.cmd = "Inv" THEN
              IF numSharers(dropAck) > 0
                THEN Ret(invalidateAllSharers(dropAck), "STALL")
                ELSE Ret(SetState(sendAckInv(dropAck, req), "IM"), "DONE")
            ELSE IF req.cmd = "GetXResp" THEN Ret(SetState(dropAck, "SM"), "STALL")
            ELSE Fatal(dropAck)
       [] st = "MI" ->
            LET a == flushInvDropOwnerFirst(s, ev)
            IN IF a.acks # 0 THEN Ret(a, "STALL") ELSE flushInvEvict(a, isCached, "PutM")
       [] st = "EI" ->
            LET a == flushInvDropOwnerFirst(s, ev)
                b == IF ev.dirty THEN SetState(a, "MI") ELSE a
            IN IF b.acks # 0 THEN Ret(b, "STALL")
               ELSE flushInvEvict(b, isCached, IF ev.dirty THEN "PutM" ELSE "PutE")
       [] st = "SI" ->
            IF dropAck.acks # 0 THEN Ret(dropAck, "STALL")
            ELSE flushInvEvict(dropAck, isCached, "PutS")
       [] st = "M_Inv" -> flushInvMInv(s, ev, req, hasReq, isCached)
       [] st = "E_Inv" -> flushInvEInv(s, ev, req, hasReq, isCached, "E_Inv")
       [] st \in {"M_InvX", "E_InvX"} -> flushInvInvX(s, ev, req, hasReq, isCached, st)
       [] OTHER -> Fatal(s)

handleFlush(s, ev, hasReq, ubFirst) ==
  IF ev.cmd = "FlushLineInv" THEN handleFlushLineInvRequest(s, ev, hasReq, ubFirst)
  ELSE IF ev.cmd = "FlushLine" THEN handleFlushLineRequest(s, ev, hasReq)
  ELSE Fatal(s)

\* -------------------------------------------------------------- responses
handleDataResponse(s, resp) ==
  LET st == s.state
      orig == lookupFront(s)
      isCached == s.cached
      d == IF isCached THEN setData(s, resp.payload) ELSE s
  IN IF ~exists(s) THEN Fatal(s)
     ELSE CASE st = "IS" ->
                 IF resp.cmd = "GetXResp" /\ protocol THEN
                   Ret(sendResponseUpCmd(SetOwner(SetState(d, "E"), orig.src), orig,
                                         "GetXResp", resp.payload), "DONE")
                 ELSE
                   Ret(sendResponseUp(AddSharer(SetState(d, "S"), orig.src), orig,
                                      resp.payload), "DONE")
            [] st \in {"IM", "SM"} ->
                 LET a == IF st = "IM" THEN d ELSE s
                     b == RemoveSharer(SetOwner(SetState(a, "M"), orig.src), orig.src)
                 IN Ret(sendResponseUp(b, orig, IF isCached THEN b.data ELSE resp.payload),
                        "DONE")
            [] st = "SM_Inv" -> Ret(SetState(setDataBuffer(s, resp.payload), "M_Inv"), "STALL")
            [] OTHER -> Fatal(s)

handleCacheResponse(s, resp) ==
  LET r == IF resp.cmd \in {"GetSResp", "GetXResp"} THEN handleDataResponse(s, resp)
           ELSE IF resp.cmd = "FlushLineResp" THEN
             IF ~exists(s) THEN Fatal(s)
             ELSE Ret(SetState(sendFlushResponse(s, lookupFront(s), resp.success),
                               IF s.state = "S_B" THEN "S" ELSE "I"), "DONE")
           ELSE Fatal(s)
  IN IF r.fatal THEN r
     ELSE IF r.act = "DONE" THEN removeFront(r) ELSE r

\* handleFetchResp, case S_D, SM_D, E_D and M_D.
fetchRespDuringFetch(s0, resp, req, hasReq, action) ==
  LET s == SetState(s0, IF s0.state = "SM_D" THEN "SM" ELSE NextState(s0.state))
  IN IF ~hasReq THEN Fatal(s)
     ELSE IF req.cmd = "Fetch" THEN Ret(sendResponseDownFromMSHR(s, resp, FALSE), action)
     ELSE IF req.cmd = "GetS" THEN
       Ret(sendResponseUp(AddSharer(s, req.src), req, resp.payload), action)
     ELSE Fatal(s)

\* A variant that completes the request without downgrading the owner.
fetchRespKeepsOwner(s0, resp, req, hasReq, isCached, action) ==
  fetchRespDuringFetch(s0, resp, req, hasReq, action)

\* handleFetchResp, case E_InvX and M_InvX.
fetchRespInvX(s0, resp, req, hasReq, isCached, action) ==
  LET st == s0.state
      m == st = "M_InvX" \/ resp.dirty
      a == IF s0.owner = resp.src THEN AddSharer(ClearOwner(s0), resp.src) ELSE s0
      s == IF ~isCached THEN setDataBuffer(a, resp.payload) ELSE a
  IN IF ~hasReq THEN Fatal(s)
     ELSE IF req.cmd = "FetchInvX" THEN
       Ret(SetState(sendResponseDownFromMSHR(s, resp, m), "S"), action)
     ELSE IF req.cmd = "FetchInv" THEN
       IF numSharers(s) > 0 THEN
         Ret(SetState(invalidateAllSharers(s), IF m THEN "M_Inv" ELSE "E_Inv"), "STALL")
       ELSE
         Ret(sendResponseDownFromMSHR(SetState(s, IF m THEN "M" ELSE "E"), resp, m), action)
     ELSE IF req.cmd = "FlushLine" THEN
       handleFlushLineRequest(SetState(s, IF m THEN "M" ELSE "E"), req, FALSE)
     ELSE
       Ret(SetState(sendResponseUp(AddSharer(s, req.src), req, resp.payload),
                    IF m THEN "M" ELSE "E"), action)

\* handleFetchResp, case E_Inv and M_Inv.
fetchRespInv(s0, resp, req, hasReq, action) ==
  LET st == s0.state
      a == IF isSharer(s0, resp.src) THEN RemoveSharer(s0, resp.src) ELSE s0
      s == IF a.owner = resp.src THEN ClearOwner(a) ELSE a
  IN IF action # "DONE" THEN
       Ret(setDataBuffer(IF resp.dirty THEN SetState(s, "M_Inv") ELSE s, resp.payload), action)
     ELSE IF ~hasReq THEN Fatal(s)
     ELSE IF req.cmd \in {"GetX", "GetSX"} THEN
       Ret(SetState(sendResponseUp(SetOwner(RemoveSharer(s, req.src), req.src), req,
                                   resp.payload), "M"), action)
     ELSE IF req.cmd = "FlushLineInv" THEN
       LET b == IF ~resp.dirty THEN s
                ELSE IF s.cached THEN setData(s, resp.payload)
                ELSE setDataBuffer(s, resp.payload)
       IN handleFlushLineInvRequest(
            SetState(b, IF resp.dirty \/ st = "M_Inv" THEN "M" ELSE "E"), req, FALSE, FALSE)
     ELSE
       Ret(SetState(sendResponseDownFromMSHR(s, resp, st = "M_Inv" \/ resp.dirty), "I"), action)

handleFetchResp(s0, resp) ==
  LET st == s0.state
      hasReq == exists(s0)
      req == lookupFront(s0)
      a == IF s0.acks > 0 THEN decrementAcksNeeded(s0) ELSE s0
      action == IF a.acks = 0 THEN "DONE" ELSE "IGNORE"
      isCached == a.cached
      s == IF isCached THEN setData(a, resp.payload) ELSE a
  IN CASE st \in {"S_D", "SM_D", "E_D", "M_D"} ->
            fetchRespDuringFetch(s, resp, req, hasReq, action)
       [] st = "SI" ->
            LET b == setDataBuffer(RemoveSharer(s, resp.src), resp.payload)
                w == sendWritebackFromMSHR(b, "PutS", resp.payload)
                x == IF expectWritebackAck THEN insertWriteback(w) ELSE w
            IN IF action # "DONE" THEN Ret(b, action)
               ELSE IF ~hasReq THEN Fatal(b)
               ELSE Ret(SetState(x, "I"), action)
       [] st \in {"EI", "MI"} ->
            LET b == IF st = "EI" /\ resp.dirty THEN SetState(s, "MI") ELSE s
                c == IF b.owner = resp.src THEN ClearOwner(b) ELSE b
                d == IF isSharer(c, resp.src) THEN RemoveSharer(c, resp.src) ELSE c
                w == sendWritebackFromMSHR(d, IF d.state = "EI" THEN "PutE" ELSE "PutM",
                                           resp.payload)
                x == IF expectWritebackAck THEN insertWriteback(w) ELSE w
            IN IF action # "DONE" THEN Ret(d, action) ELSE Ret(SetState(x, "I"), action)
       [] st \in {"E_InvX", "M_InvX"} -> fetchRespInvX(s, resp, req, hasReq, isCached, action)
       [] st \in {"E_Inv", "M_Inv"} -> fetchRespInv(s, resp, req, hasReq, action)
       [] st \in {"S_Inv", "SM_Inv"} ->
            LET b == IF isSharer(s, resp.src) THEN RemoveSharer(s, resp.src) ELSE s
            IN IF action # "DONE" THEN Ret(setDataBuffer(b, resp.payload), action)
               ELSE Ret(SetState(sendResponseDownFromMSHR(b, resp, FALSE),
                                 IF st = "S_Inv" THEN "I" ELSE "IM"), action)
       [] OTHER -> Fatal(s)

\* handleAckInv, case SI: the cases SI, EI and MI have no break, control
\* runs through the three writebacks into the default case.
ackInvWriteback(s, data, put) ==
  LET w == sendWritebackFromMSHR(s, put, data)
      x == IF expectWritebackAck THEN insertWriteback(w) ELSE w
  IN SetState(x, "I")

handleAckInv(s0, ack) ==
  LET st == s0.state
      hasReq == exists(s0)
      req == lookupFront(s0)
      a == IF isSharer(s0, ack.src) THEN RemoveSharer(s0, ack.src) ELSE s0
      s == IF a.acks > 0 THEN decrementAcksNeeded(a) ELSE a
      done == s.acks = 0
      action == IF done THEN "DONE" ELSE "IGNORE"
      data == IF s.cached THEN s.data ELSE s.dbuf
  IN IF ~s.cached /\ ~hasReq THEN Fatal(s)
     ELSE IF ~done /\ st \in {"S_Inv", "E_Inv", "M_Inv", "SM_Inv", "SB_Inv"} THEN Ret(s, action)
     ELSE IF ~done THEN Fatal(s)
     ELSE IF ~hasReq THEN Fatal(s)
     ELSE CASE st = "S_Inv" ->
                 IF req.cmd = "FetchInv"
                   THEN Ret(SetState(sendResponseDown(s, req, data, FALSE), "I"), action)
                   ELSE Ret(SetState(sendAckInv(s, req), "I"), action)
            [] st \in {"E_Inv", "M_Inv"} ->
                 IF req.cmd = "FetchInv" THEN
                   Ret(clearDataBuffer(SetState(sendResponseDown(s, req, data, st = "E_Inv"),
                                                "I")), action)
                 ELSE IF req.cmd = "ForceInv" THEN
                   Ret(clearDataBuffer(SetState(sendAckInv(s, req), "I")), action)
                 ELSE
                   Ret(clearDataBuffer(SetState(
                         sendResponseUp(RemoveSharer(SetOwner(s, req.src), req.src), req, data),
                         "M")), action)
            [] st = "SM_Inv" ->
                 IF req.cmd \in {"Inv", "ForceInv"} THEN
                   IF numSharers(s) > 0 THEN Ret(invalidateAllSharers(s), "STALL")
                   ELSE Ret(SetState(sendAckInv(s, req), "IM"), action)
                 ELSE IF req.cmd = "FetchInv" THEN
                   Ret(SetState(sendResponseDown(s, req, data, FALSE), "IM"), action)
                 ELSE Ret(SetState(s, "SM"), "IGNORE")
            [] st = "SB_Inv" ->
                 IF numSharers(s) > 0 THEN Ret(invalidateAllSharers(s), "IGNORE")
                 ELSE Ret(SetState(sendAckInv(s, req), "I_B"), action)
            [] st = "SI" ->
                 Fatal(ackInvWriteback(ackInvWriteback(ackInvWriteback(s, data, "PutS"),
                                                       data, "PutE"), data, "PutM"))
            [] st = "EI" ->
                 Fatal(ackInvWriteback(ackInvWriteback(s, data, "PutE"), data, "PutM"))
            [] st = "MI" -> Fatal(ackInvWriteback(s, data, "PutM"))
            [] OTHER -> Fatal(s)

handleFetchResponse(s, ev) ==
  LET hasReq == exists(s)
      r == CASE ev.cmd \in {"FetchResp", "FetchXResp"} -> handleFetchResp(s, ev)
             [] ev.cmd = "AckInv" -> handleAckInv(s, ev)
             [] ev.cmd = "AckPut" -> Ret(removeWriteback(s), "DONE")
             [] OTHER -> Fatal(s)
  IN IF r.fatal THEN r
     ELSE IF r.act = "DONE" /\ hasReq THEN removeFront(r) ELSE r

\* ------------------------------------------------------------------ NACKs
\* A NACK of the party src for the message it refused.
Nack(m) ==
  [cmd |-> "NACK", src |-> m.dst, payload |-> NoData, dirty |-> FALSE, nacked |-> m]

\* A variant that resends whatever comes back.
handleNACKResendsAll(s, ev) == Ret(Emit(s, ev.nacked), "DONE")

\* The message is sent again or dropped; a response to a NACK is not awaited.
handleNACK(s, ev) ==
  LET nackedEvent == ev.nacked
      cmd == nackedEvent.cmd
      dst == nackedEvent.dst
      resend ==
        CASE cmd \in GetCmds -> TRUE
          [] cmd \in PutCmds -> ~(expectWritebackAck /\ ~s.wb)
          [] cmd = "FetchInvX" -> ~(s.state = "I" \/ s.owner # dst)
          [] cmd = "FetchInv" -> ~(s.state = "I" \/ (s.owner # dst /\ ~isSharer(s, dst)))
          [] cmd \in {"Fetch", "Inv"} -> ~(s.state = "I" \/ ~isSharer(s, dst))
          [] OTHER -> FALSE
  IN IF cmd \notin GetCmds \cup PutCmds \cup {"FetchInvX", "FetchInv", "Fetch", "Inv"}
     THEN Fatal(s)
     ELSE IF resend THEN Ret(Emit(s, nackedEvent), "DONE") ELSE Ret(s, "DONE")

\* ------------------------------------------------- controller and parties
\* The engine state the handlers work on.
Eng ==
  [state |-> state, sharers |-> sharers, owner |-> owner, cached |-> cached,
   data |-> lineData, mshr |-> mshr, acks |-> acksNeeded, wb |-> pendingWb,
   dbuf |-> dataBuffer, out |-> <<>>, act |-> "NONE", fatal |-> FALSE]

\* What the children and the parent owe.
Env ==
  [pend |-> pend, lost |-> lost, busy |-> busy, down |-> down, pinv |-> pinv,
   pview |-> pview, issued |-> issued, unacked |-> unacked, pointers |-> pointers,
   otherMSHR |-> otherMSHR]

\* One more operation is begun.
Issue(e) == [e EXCEPT !.issued = @ + 1]

\* A message on its way to the parent.
DownMsg(m) == [cmd |-> m.cmd, payload |-> m.payload, dirty |-> m.dirty]

\* The engine took an AckPut, or an invalidation as the AckPut.
Acknowledged(e) == [e EXCEPT !.unacked = IF @ > 0 THEN @ - 1 ELSE 0]

\* The parent's record after the answer to its invalidation.
ViewAfter(inv, view) ==
  IF inv = "Fetch" THEN view
  ELSE IF inv = "FetchInvX" THEN "S"
  ELSE "I"

\* The child c has written the block back and the writeback waits here.
putWaiting(c) ==
  \/ \E i \in DOMAIN mshr : mshr[i].src = c /\ mshr[i].cmd \in PutCmds
  \/ \E i \in DOMAIN replayQ : replayQ[i].src = c /\ replayQ[i].cmd \in PutCmds

\* The invalidation cmd finds no block at the child c.  The child does not
\* answer it; in a run that follows NACKs it may still refuse it.
Lose(e, c, cmd) ==
  IF nacks /\ cmd # "none" THEN [e EXCEPT !.lost[c] = cmd] ELSE e

\* One emitted message reaches its destination's bookkeeping.  A child that
\* has written the block back has nothing to invalidate and stays silent.
Deliver(e, m) ==
  IF m.dst \in Children THEN
    IF m.cmd \in InvCmds THEN
      IF putWaiting(m.dst) THEN Lose(e, m.dst, m.cmd)
      ELSE [e EXCEPT !.pend[m.dst] = m.cmd]
    ELSE IF m.cmd \in {"GetSResp", "GetXResp", "FlushLineResp"}
      THEN [e EXCEPT !.busy[m.dst] = FALSE]
    ELSE e
  ELSE IF m.cmd \in PutCmds THEN
    [e EXCEPT !.down = Append(@, DownMsg(m)),
              !.unacked = IF expectWritebackAck THEN @ + 1 ELSE @]
  ELSE IF m.cmd \in GetCmds \cup FlushCmds THEN
    [e EXCEPT !.down = Append(@, DownMsg(m))]
  ELSE IF m.cmd \in {"AckInv", "FetchResp", "FetchXResp"} /\ e.pinv # "none" THEN
    [e EXCEPT !.pinv = "none", !.pview = ViewAfter(e.pinv, @)]
  ELSE e

RECURSIVE DeliverAll(_, _)
DeliverAll(e, msgs) ==
  IF msgs = <<>> THEN e ELSE DeliverAll(Deliver(e, Head(msgs)), Tail(msgs))

\* The result r0 of a call becomes the state.  q: the entries still to be
\* replayed; a DONE hands the whole queue of the address to the replay
\* (wake: the caller is the controller, which calls activatePrevEvents).
CommitFull(r0, e0, op, ev, replay, q, wake, denied) ==
  \E r \in {r0} : \E e \in {DeliverAll(e0, r.out)} :
  LET again == wake /\ r.act = "DONE" /\ ~r.fatal /\ q = <<>>
  IN /\ r.acks <= MaxAcks
     /\ Len(r.mshr) + Len(q) <= MaxMSHR
     /\ Len(e.down) <= MaxDown
     /\ state' = r.state /\ sharers' = r.sharers /\ owner' = r.owner
     /\ cached' = r.cached /\ lineData' = r.data
     /\ mshr' = IF again THEN <<>> ELSE r.mshr
     /\ replayQ' = IF again THEN r.mshr ELSE q
     /\ acksNeeded' = r.acks /\ pendingWb' = r.wb /\ dataBuffer' = r.dbuf
     /\ pre' = Eng /\ lastOp' = op /\ lastEv' = ev /\ lastReplay' = replay
     /\ lastDenied' = denied
     /\ lastAction' = r.act /\ out' = r.out /\ fatal' = r.fatal
     /\ pend' = e.pend /\ lost' = e.lost /\ busy' = e.busy /\ down' = e.down
     /\ pinv' = e.pinv /\ pview' = e.pview /\ issued' = e.issued /\ unacked' = e.unacked
     /\ pointers' = e.pointers /\ otherMSHR' = e.otherMSHR
     /\ UNCHANGED <<cfgVars, shmemVars, timeVars>>

\* A call that does not read mshr_->isFull().
Commit(r0, e0, op, ev, replay, q, wake) ==
  CommitFull(r0, e0, op, ev, replay, q, wake, FALSE)

\* The engine takes events while it runs and no replay is under way.
Ready == ~fatal /\ replayQ = <<>>

\* Another operation may begin.
More == Ready /\ issued < limit

\* The children are interchangeable: the first operation is taken to be
\* that of the first child.
inTurn(c) == issued = 0 => \A d \in Children : c <= d

holds(c) == c \in sharers \/ owner = c
queued(c) == \E i \in DOMAIN mshr : mshr[i].src = c

\* The address has no directory line: lookup finds nothing for it.
Misses == IF state = "I" /\ ~cached /\ sharers = {} /\ owner = NoOwner
            THEN BOOLEAN ELSE {FALSE}

\* Cache::processCacheFlush: reqEvent is the head of the MSHR, the flush
\* joins the queue when a request is ahead of it or when it waits itself.
\* allocateLine is called on a miss only; it may find no line.
LineFound(miss) == IF miss THEN BOOLEAN ELSE {TRUE}

\* allocateDirCacheLine is called for a block without data line only.
DataLineFound == IF cached THEN {TRUE} ELSE BOOLEAN

\* mshr_->isFull() is read only when no writeback marker is pending.
IsFull == IF pendingWb THEN {FALSE} ELSE BOOLEAN

\* *(sharers->begin()) == source is undefined on an empty sharer set and
\* defined by the set otherwise.
FirstIsSource == IF sharers = {} THEN BOOLEAN ELSE {FALSE}

processCacheFlush(s, ev, ubFirst) ==
  LET hasReq == exists(s)
      r == handleFlush(s, ev, hasReq, ubFirst)
  IN IF r.fatal THEN r
     ELSE IF hasReq THEN
       (IF r.act = "DONE" THEN removeFront(allocateMSHR(r, ev)) ELSE allocateMSHR(r, ev))
     ELSE IF r.act = "STALL" THEN allocateMSHR(r, ev)
     ELSE r

\* The engine after construction: no line, no MSHR entry, nothing sent.
Constructed ==
  /\ state = "I" /\ sharers = {} /\ owner = NoOwner
  /\ cached = FALSE /\ lineData = NoData
  /\ mshr = <<>> /\ acksNeeded = 0 /\ pendingWb = FALSE /\ dataBuffer = NoData
  /\ pre = Eng /\ lastOp = "none" /\ lastEv = NoEv /\ lastReplay = FALSE
  /\ lastDenied = FALSE
  /\ lastAction = "NONE" /\ out = <<>> /\ fatal = FALSE
  /\ replayQ = <<>>
  /\ pend = [c \in Children |-> "none"] /\ lost = [c \in Children |-> "none"]
  /\ busy = [c \in Children |-> FALSE]
  /\ down = <<>> /\ pinv = "none" /\ pview = "I" /\ issued = 0 /\ unacked = 0
  /\ pointers = 0 /\ otherMSHR = <<>>

\* No message has been sent for the line.
NoSend == [by |-> "none", replay |-> FALSE, now |-> 0, before |-> 0, deliveryTime |-> 0]

\* A run that does not follow the times of the messages.
Untimed ==
  /\ timestamp_ = 0 /\ lineTimestamp = 0 /\ lastSend = NoSend
  /\ tagLatency_ = 0 /\ mshrLatency_ = 0 /\ accessLatency_ = 0

\* No motif runs beside the engine.
NoMotif ==
  shmem = [n_pes |-> 0, m_phase |-> <<>>, evQ |-> <<>>, m_ptr |-> <<>>,
           waiting |-> {}, inFlight |-> {}, failed |-> {}]

Init ==
  /\ protocol \in BOOLEAN /\ lastLevel \in BOOLEAN
  /\ expectWritebackAck \in BOOLEAN /\ writebackCleanBlocks \in BOOLEAN
  /\ limit = MaxIssued /\ nacks = FALSE
  /\ Constructed /\ Untimed /\ NoMotif

\* A MESI directory above the last level that does not write clean data
\* back, explored in longer runs.
InitDeep ==
  /\ protocol = TRUE /\ lastLevel = FALSE
  /\ expectWritebackAck \in BOOLEAN /\ writebackCleanBlocks = FALSE
  /\ limit = MaxDeep /\ nacks = FALSE
  /\ Constructed /\ Untimed /\ NoMotif

\* A child asks for the block.  With events waiting on the address the
\* controller queues the request without calling the engine.
ChildGet(c, cmd) ==
  /\ More /\ inTurn(c) /\ ~busy[c] /\ ~queued(c)
  /\ IF cmd = "GetS" THEN ~holds(c) ELSE owner # c
  /\ LET ev == Ev(cmd, c, NoData, FALSE)
         e0 == Issue([Env EXCEPT !.busy[c] = TRUE])
     IN IF mshr # <<>>
          THEN Commit(Ret(allocateMSHR(Eng, ev), "STALL"), e0, "queue", ev, FALSE, <<>>, FALSE)
          ELSE \E miss \in Misses : \E allocOK \in LineFound(miss) :
                 CommitFull(handleRequest(Eng, ev, miss, allocOK), e0, "request", ev,
                            FALSE, <<>>, TRUE, ~allocOK)

\* A child writes the block back; an invalidation on its way to the child
\* finds no block there and is dropped.
ChildPut(c) ==
  /\ More /\ holds(c) /\ ~busy[c] /\ ~queued(c)
  /\ \E cmd \in (IF owner = c THEN {"PutE", "PutM"} ELSE {"PutS"}), d \in Data,
        allocOK \in DataLineFound, ubFirst \in FirstIsSource :
       LET ev == Ev(cmd, c, d, cmd = "PutM")
           e0 == Issue(Lose([Env EXCEPT !.pend[c] = "none"], c, pend[c]))
       IN CommitFull(handleReplacement(Eng, ev, allocOK, ubFirst), e0, "replacement",
                     ev, FALSE, <<>>, TRUE, ~allocOK)

ChildFlush(c, cmd) ==
  /\ More /\ inTurn(c) /\ ~busy[c] /\ ~queued(c)
  /\ \E dirty \in (IF owner = c THEN BOOLEAN ELSE {FALSE}), d \in Data, ubFirst \in FirstIsSource :
       LET ev == Ev(cmd, c, IF dirty THEN d ELSE NoData, dirty)
           e1 == [Env EXCEPT !.busy[c] = TRUE,
                             !.pend[c] = IF cmd = "FlushLineInv" THEN "none" ELSE @]
           e0 == Issue(IF cmd = "FlushLineInv" THEN Lose(e1, c, pend[c]) ELSE e1)
       IN Commit(processCacheFlush(Eng, ev, ubFirst), e0, "flush", ev, FALSE, <<>>, TRUE)

\* A child answers the invalidation or fetch it was sent.
ChildRespond(c) ==
  /\ Ready /\ pend[c] # "none"
  /\ \E d \in Data, dirty \in (IF owner = c THEN BOOLEAN ELSE {FALSE}) :
       LET ack == pend[c] \in {"Inv", "ForceInv"}
           ev == IF ack THEN Ev("AckInv", c, NoData, FALSE)
                 ELSE Ev(RespCmd(pend[c]), c, d, dirty)
           e0 == [Env EXCEPT !.pend[c] = "none"]
       IN Commit(handleFetchResponse(Eng, ev), e0, "response", ev, FALSE, <<>>, TRUE)

\* A response of the parent, as the engine's response handler reads it.
Resp(cmd, payload, success) ==
  [cmd |-> cmd, src |-> Parent, payload |-> payload, dirty |-> FALSE, success |-> success]

\* The parent answers the request or flush at the head of its queue.  While
\* its own invalidation is unanswered it keeps requests and FlushLine
\* waiting; a FlushLineInv answers the invalidation.
ParentRespond ==
  /\ Ready /\ down # <<>>
  /\ LET m == Head(down)
     IN /\ m.cmd \in GetCmds \cup FlushCmds
        /\ m.cmd # "FlushLineInv" => pinv = "none"
        /\ \E d \in Data, excl \in BOOLEAN,
              ok \in (IF m.cmd \in FlushCmds THEN BOOLEAN ELSE {TRUE}) :
             LET cmd == IF m.cmd \in FlushCmds THEN "FlushLineResp"
                        ELSE IF m.cmd = "GetS" /\ ~excl THEN "GetSResp"
                        ELSE "GetXResp"
                 view == IF m.cmd = "FlushLineInv" THEN "I"
                         ELSE IF m.cmd = "FlushLine" THEN (IF pview = "I" THEN "I" ELSE "S")
                         ELSE IF cmd = "GetXResp" THEN "X" ELSE "S"
                 ev == Resp(cmd, IF m.cmd \in FlushCmds THEN NoData ELSE d, ok)
                 e0 == [Env EXCEPT !.down = Tail(@), !.pview = view,
                                   !.pinv = IF m.cmd = "FlushLineInv" THEN "none" ELSE @]
             IN Commit(handleCacheResponse(Eng, ev), e0, "cacheResponse", ev, FALSE,
                       <<>>, TRUE)

\* The parent takes the writeback at the head of its queue and
\* acknowledges it when acknowledgements are in use.
ParentAckPut ==
  /\ Ready /\ down # <<>> /\ Head(down).cmd \in PutCmds
  /\ pinv = "none" /\ expectWritebackAck
  /\ LET ev == Ev("AckPut", Parent, NoData, FALSE)
         e0 == Acknowledged([Env EXCEPT !.down = Tail(@), !.pview = "I"])
     IN Commit(handleFetchResponse(Eng, ev), e0, "response", ev, FALSE, <<>>, TRUE)

\* No acknowledgement: acknowledgements are not in use, or the writeback
\* crossed an invalidation of the parent and answers it.
ParentTakePut ==
  /\ Ready /\ down # <<>> /\ Head(down).cmd \in PutCmds
  /\ pinv # "none" \/ ~expectWritebackAck
  /\ down' = Tail(down) /\ pinv' = "none" /\ pview' = "I"
  /\ pre' = Eng /\ lastOp' = "take" /\ lastEv' = NoEv /\ lastReplay' = FALSE
  /\ lastDenied' = FALSE
  /\ lastAction' = "NONE" /\ out' = <<>>
  /\ UNCHANGED <<cfgVars, shmemVars, lineVars, mshrVars, fatal, replayQ, pend, lost, busy, issued,
                 unacked, pointers, otherMSHR, timeVars>>

\* An invalidation that finds the writeback marker is the acknowledgement.
invEnv(e) == IF pendingWb THEN Acknowledged(e) ELSE e

\* The parent invalidates or fetches the block it has on record here.
ParentInv(cmd) ==
  /\ More /\ ~lastLevel /\ pinv = "none"
  /\ \/ pview = "S" /\ cmd \in {"Inv", "Fetch", "FetchInv", "ForceInv"}
     \/ pview = "X" /\ cmd \in {"FetchInv", "FetchInvX", "ForceInv"}
  /\ \E full \in IsFull :
       LET ev == Ev(cmd, Parent, NoData, FALSE)
           e0 == Issue(invEnv([Env EXCEPT !.pinv = cmd]))
       IN CommitFull(handleInvalidationRequest(Eng, ev, full), e0, "invalidation", ev,
                     FALSE, <<>>, TRUE, full)

\* The victim of an eviction that ended DONE is replaced: its data line,
\* if any, goes to the other address.
replaced(r) ==
  IF r.act = "DONE" /\ ~r.fatal THEN [r EXCEPT !.cached = FALSE, !.data = NoData] ELSE r

\* allocateLine picks this line as the victim for another address; after
\* a DONE the line is replaced.
Evict ==
  /\ More /\ state \in Stable \ {"I"}
  /\ Commit(replaced(handleEviction(Eng, FALSE)), Issue(Env), "eviction", NoEv, FALSE,
            <<>>, FALSE)

\* The data line goes to the other address whatever the eviction returned.
dataReplaced(r) ==
  IF ~r.fatal THEN [r EXCEPT !.cached = FALSE, !.data = NoData] ELSE r

\* allocateDirCacheLine picks the data line of this block for another
\* address; the block stays in the directory.
EvictData ==
  /\ More /\ cached /\ state \in Stable \ {"I"}
  /\ Commit(dataReplaced(handleEviction(Eng, TRUE)), Issue(Env), "evictionData", NoEv,
            FALSE, <<>>, FALSE)

\* Cache::processEvent on a replayed entry: the handler its command selects.
processEvent(s, ev, miss, allocOK, ubFirst, full) ==
  IF ev.cmd \in GetCmds THEN handleRequest(s, ev, miss, allocOK)
  ELSE IF ev.cmd \in PutCmds THEN handleReplacement(s, ev, allocOK, ubFirst)
  ELSE IF ev.cmd \in InvCmds THEN handleInvalidationRequest(s, ev, full)
  ELSE processCacheFlush(s, ev, ubFirst)

\* The entry point processEvent selects, as the call is recorded.
entryPoint(ev) ==
  IF ev.cmd \in GetCmds THEN "request"
  ELSE IF ev.cmd \in PutCmds THEN "replacement"
  ELSE IF ev.cmd \in InvCmds THEN "invalidation" ELSE "flush"

\* What the parties owe when the entry ev is handled again.
replayEnv(ev) == IF ev.cmd \in InvCmds THEN invEnv(Env) ELSE Env

\* Cache::activatePrevEvents, one entry: r is the engine after the entry
\* ev was handled again.  When the entry waits once more the entries
\* behind it wait on, unless the next one is an invalidation.
activatePrevEvent(r0, ev, rest, denied) ==
  \E r \in {r0} :
  IF /\ r.mshr # <<>> /\ rest # <<>>
     /\ Head(rest).cmd \notin {"Inv", "FetchInv", "FetchInvX", "ForceInv"}
    THEN CommitFull([r EXCEPT !.mshr = @ \o rest], replayEnv(ev), entryPoint(ev), ev,
                    TRUE, <<>>, FALSE, denied)
    ELSE CommitFull(r, replayEnv(ev), entryPoint(ev), ev, TRUE, rest, TRUE, denied)

\* The next entry taken from the MSHR is handed to the engine again.
Replay ==
  /\ ~fatal /\ replayQ # <<>>
  /\ \E miss \in (IF Head(replayQ).cmd \in GetCmds THEN Misses ELSE {FALSE}) :
     \E allocOK \in (IF Head(replayQ).cmd \in GetCmds THEN LineFound(miss)
                      ELSE IF Head(replayQ).cmd \in PutCmds THEN DataLineFound ELSE {TRUE}),
        ubFirst \in (IF Head(replayQ).cmd \in InvCmds THEN {FALSE} ELSE FirstIsSource),
        full \in (IF Head(replayQ).cmd \in InvCmds THEN IsFull ELSE {FALSE}) :
       activatePrevEvent(processEvent(Eng, Head(replayQ), miss, allocOK, ubFirst, full),
                         Head(replayQ), Tail(replayQ), full \/ ~allocOK)

\* The line another address held up has settled: the events that waited
\* for a line, or for room in the MSHR, are handed to the engine again.
Wakeup ==
  /\ Ready /\ mshr # <<>>
  /\ state \in Stable \/ Head(mshr).cmd \in InvCmds
  /\ replayQ' = mshr /\ mshr' = <<>>
  /\ pre' = Eng /\ lastOp' = "wakeup" /\ lastEv' = NoEv /\ lastReplay' = FALSE
  /\ lastDenied' = FALSE
  /\ lastAction' = "NONE" /\ out' = <<>>
  /\ UNCHANGED <<cfgVars, shmemVars, lineVars, acksNeeded, pendingWb, dataBuffer, fatal,
                 pend, lost, busy, down, pinv, pview, issued, unacked, pointers,
                 otherMSHR, timeVars>>

Next ==
  \/ \E c \in Children, cmd \in {"GetS", "GetX"} : ChildGet(c, cmd)
  \/ \E c \in Children : ChildPut(c)
  \/ \E c \in Children, cmd \in FlushCmds : ChildFlush(c, cmd)
  \/ \E c \in Children : ChildRespond(c)
  \/ ParentRespond
  \/ ParentAckPut
  \/ ParentTakePut
  \/ \E cmd \in InvCmds : ParentInv(cmd)
  \/ Evict
  \/ EvictData
  \/ Replay
  \/ Wakeup

Spec == Init /\ [][Next]_vars

\* handleEviction is a public entry point: here it is called on the line
\* whatever its state, without the inTransition test of allocateLine and
\* allocateDirCacheLine.  The line is not replaced.
EvictInTransition ==
  /\ More /\ state \notin Stable
  /\ \E fromDataCache \in (IF cached THEN BOOLEAN ELSE {FALSE}) :
       Commit(handleEviction(Eng, fromDataCache), Issue(Env), "eviction", NoEv, FALSE,
              <<>>, FALSE)

\* handleEviction called on a line in I, which allocateLine replaces without
\* calling it.
EvictInvalid ==
  /\ More /\ state = "I"
  /\ Commit(handleEviction(Eng, FALSE), Issue(Env), "eviction", NoEv, FALSE, <<>>, FALSE)

NextEvict == Next \/ EvictInTransition \/ EvictInvalid

SpecEvict == Init /\ [][NextEvict]_vars

SpecDeep == InitDeep /\ [][Next]_vars

\* A variant that evicts the candidate whatever its state.
allocateLineForced(s) ==
  LET r == handleEviction(s, FALSE)
  IN [ok |-> r.act = "DONE" /\ ~r.fatal, eng |-> r, pointer |-> r.act = "STALL"]

\* allocateLine for another address, with this line as the replacement
\* candidate: whether a line was allocated, the engine afterwards, and
\* whether a pointer from this address to the other one was inserted.
allocateLine(s) ==
  IF s.state # "I" THEN
    IF inTransition(s) THEN [ok |-> FALSE, eng |-> s, pointer |-> TRUE]
    ELSE LET r == handleEviction(s, FALSE)
         IN IF r.fatal THEN [ok |-> FALSE, eng |-> r, pointer |-> FALSE]
            ELSE IF r.act = "STALL" THEN [ok |-> FALSE, eng |-> r, pointer |-> TRUE]
            ELSE [ok |-> TRUE, eng |-> replaced(r), pointer |-> FALSE]
  ELSE [ok |-> TRUE, eng |-> replaced(Ret(s, "DONE")), pointer |-> FALSE]

\* Every configuration, in short runs that follow a second address.
InitAlloc ==
  /\ protocol \in BOOLEAN /\ lastLevel \in BOOLEAN
  /\ expectWritebackAck \in BOOLEAN /\ writebackCleanBlocks \in BOOLEAN
  /\ limit = MaxShort /\ nacks = FALSE
  /\ Constructed /\ Untimed /\ NoMotif

\* handleRequest for a request of the child c that misses on another
\* address, with this line as the replacement candidate, when no line is
\* allocated: the request waits in the MSHR on its own address.  When a
\* line is allocated this line is replaced, as in Evict.
MissOnLine(c, cmd) ==
  /\ More /\ state # "I"
  /\ LET a == allocateLine(Eng)
         ev == Ev(cmd, c, NoData, FALSE)
         e0 == Issue([Env EXCEPT !.pointers = IF a.pointer THEN @ + 1 ELSE @,
                                 !.otherMSHR = Append(@, ev)])
     IN /\ ~a.ok
        /\ Commit(IF a.eng.fatal THEN a.eng ELSE Ret(a.eng, "STALL"), e0, "miss", ev,
                  FALSE, <<>>, FALSE)

\* The answer of isCacheHit, as the disposition of the call.
Answer(hit) == IF hit THEN "HIT" ELSE "MISS"

\* A variant that writes the promoted state to the line.
isCacheHitPromoting(s, ev, prefetch) ==
  Ret(IF s.state = "S" /\ lastLevel /\ ~prefetch THEN SetState(s, "M") ELSE s, Answer(TRUE))

\* isCacheHit: the profiling query of the controller.  prefetch: the event
\* is a prefetch of this cache.
isCacheHit(s, ev, prefetch) ==
  LET cmd == IF ev.cmd = "GetSX" THEN "GetX" ELSE ev.cmd
      st == IF s.state = "S" /\ lastLevel THEN "M" ELSE s.state
  IN IF s.state = "I" THEN Ret(s, Answer(FALSE))
     ELSE IF prefetch THEN Ret(s, Answer(TRUE))
     ELSE CASE st = "S" -> Ret(s, Answer(cmd = "GetS"))
            [] st \in {"E", "M"} ->
                 IF ownerExists(s) THEN Ret(s, Answer(FALSE))
                 ELSE IF cmd = "GetS" THEN Ret(s, Answer(TRUE))
                 ELSE Ret(s, Answer(/\ cmd = "GetX"
                                    /\ \/ s.sharers = {}
                                       \/ isSharer(s, ev.src) /\ numSharers(s) = 1))
            [] st \in {"IS", "IM", "SM", "S_Inv", "E_Inv", "M_Inv", "SM_Inv", "E_InvX",
                       "M_InvX"} -> Ret(s, Answer(FALSE))
            [] OTHER -> Ret(s, Answer(TRUE))

\* The controller asks whether the request of the child c would hit.
QueryHit(c, cmd) ==
  /\ Ready
  /\ \E prefetch \in BOOLEAN :
       LET ev == Ev(cmd, c, NoData, FALSE)
       IN Commit(isCacheHit(Eng, ev, prefetch), Env, "query", ev, FALSE, <<>>, FALSE)

NextAlloc == Next \/ (\E c \in Children, cmd \in GetCmds : MissOnLine(c, cmd))

SpecAlloc == InitAlloc /\ [][NextAlloc]_vars

\* A MESI directory, at the last level or above it, in the short runs that
\* follow the queries of the controller.
InitQuery ==
  /\ protocol = TRUE /\ lastLevel \in BOOLEAN
  /\ expectWritebackAck = TRUE /\ writebackCleanBlocks = FALSE
  /\ limit = MaxShort /\ nacks = FALSE
  /\ Constructed /\ Untimed /\ NoMotif

\* The children also ask for the block with GetSX.
NextQuery ==
  \/ Next
  \/ \E c \in Children : ChildGet(c, "GetSX")
  \/ \E c \in Children, cmd \in GetCmds : QueryHit(c, cmd)

SpecQuery == InitQuery /\ [][NextQuery]_vars

\* mshr_->removeElement: the first entry equal to ev leaves the queue.
removeElement(s, ev) ==
  LET at == {i \in DOMAIN s.mshr : s.mshr[i] = ev}
      first == CHOOSE i \in at : \A j \in at : i <= j
  IN IF at = {} THEN s
     ELSE [s EXCEPT !.mshr = SubSeq(@, 1, first - 1) \o SubSeq(@, first + 1, Len(@))]

\* Cache::activatePrevEvents on the event the last call returned STALL
\* for: it leaves the MSHR and is handed to its entry point again, before
\* any other event is handled.
ReplayStalled ==
  /\ Ready /\ lastAction = "STALL"
  /\ lastOp \in {"request", "invalidation", "flush"}
  /\ \E i \in DOMAIN mshr : mshr[i] = lastEv
  /\ replayQ' = <<lastEv>> /\ mshr' = removeElement(Eng, lastEv).mshr
  /\ pre' = Eng /\ lastOp' = "retry" /\ lastReplay' = FALSE
  /\ lastAction' = "NONE" /\ out' = <<>>
  /\ UNCHANGED <<cfgVars, shmemVars, lineVars, acksNeeded, pendingWb, dataBuffer, fatal, lastEv,
                 lastDenied, pend, lost, busy, down, pinv, pview, issued, unacked,
                 pointers, otherMSHR, timeVars>>

NextReplay == Next \/ ReplayStalled

SpecReplay == InitQuery /\ [][NextReplay]_vars

\* The commands handleNACK knows.
Nackable == GetCmds \cup PutCmds \cup {"FetchInvX", "FetchInv", "Fetch", "Inv"}

\* A MESI directory above the last level whose messages may come back NACKed.
InitNack ==
  /\ protocol = TRUE /\ lastLevel = FALSE
  /\ expectWritebackAck \in BOOLEAN /\ writebackCleanBlocks = FALSE
  /\ limit = MaxIssued /\ nacks = TRUE
  /\ Constructed /\ Untimed /\ NoMotif

\* The child c refuses the invalidation or fetch sent to it: one it has not
\* answered, or one that found no block there.
ChildNack(c) ==
  /\ Ready
  /\ \E fromLost \in BOOLEAN :
       LET cmd == IF fromLost THEN lost[c] ELSE pend[c]
           ev == Nack(Msg(cmd, c, NoData, FALSE))
           e0 == IF fromLost THEN [Env EXCEPT !.lost[c] = "none"]
                 ELSE [Env EXCEPT !.pend[c] = "none"]
       IN /\ cmd \in Nackable
          /\ Commit(handleNACK(Eng, ev), e0, "nack", ev, FALSE, <<>>, FALSE)

\* The parent refuses the request or writeback at the head of its queue.  A
\* writeback sent again awaits the acknowledgement the refused one awaited.
ParentNack ==
  /\ Ready /\ down # <<>> /\ Head(down).cmd \in Nackable
  /\ LET m == Head(down)
         ev == Nack(Msg(m.cmd, Parent, m.payload, m.dirty))
         r == handleNACK(Eng, ev)
         e1 == [Env EXCEPT !.down = Tail(@)]
         e0 == IF Head(down).cmd \in PutCmds /\ r.out # <<>> /\ expectWritebackAck
               THEN Acknowledged(e1) ELSE e1
     IN Commit(r, e0, "nack", ev, FALSE, <<>>, FALSE)

NextNack == Next \/ (\E c \in Children : ChildNack(c)) \/ ParentNack

SpecNack == InitNack /\ [][NextNack]_vars

\* ------------------------------------------------------------------ times
\* The emitters of the engine that take the replay flag.
ReplaySenders ==
  {"invalidateAllSharers", "invalidateAllSharersAndFetch", "invalidateSharersExceptRequestor",
   "sendFetchInv", "sendFetchInvX", "sendFetch", "sendForceInv", "sendResponseDown",
   "sendResponseUp"}

\* The emitters of the engine.
Senders ==
  ReplaySenders \cup
  {"sendResponseDownFromMSHR", "sendAckInv", "sendWritebackAck", "sendWritebackFromCache",
   "sendWritebackFromMSHR", "sendFlushResponse", "forwardFlushLine", "forwardMessage"}

\* The later of the engine's time and the line's timestamp.
baseTime == IF timestamp_ > lineTimestamp THEN timestamp_ ELSE lineTimestamp

\* The delivery time the controller's own senders return for the base time
\* the engine passes them, the line's timestamp.
controllerTime(fn, replay) ==
  IF fn = "sendResponseUp" THEN baseTime + (IF replay THEN mshrLatency_ ELSE accessLatency_)
  ELSE baseTime + tagLatency_

\* The delivery time the emitter fn gives its message.
deliveryTime(fn, replay) ==
  CASE fn \in {"invalidateAllSharers", "invalidateSharersExceptRequestor", "sendFetchInvX",
               "sendForceInv"} ->
         IF replay THEN baseTime + mshrLatency_ ELSE baseTime + tagLatency_
    [] fn \in {"invalidateAllSharersAndFetch", "sendFetchInv"} ->
         IF replay THEN timestamp_ + mshrLatency_ ELSE timestamp_ + tagLatency_
    [] fn = "sendFetch" -> baseTime + tagLatency_
    [] fn = "sendResponseDown" ->
         IF replay THEN baseTime + mshrLatency_ ELSE baseTime + accessLatency_
    [] fn \in {"sendResponseDownFromMSHR", "sendFlushResponse"} -> timestamp_ + mshrLatency_
    [] fn \in {"sendAckInv", "sendWritebackAck"} -> timestamp_ + tagLatency_
    [] fn = "sendWritebackFromCache" -> baseTime + accessLatency_
    [] fn = "sendWritebackFromMSHR" -> timestamp_ + accessLatency_
    [] fn = "forwardFlushLine" -> baseTime + tagLatency_
    [] OTHER -> controllerTime(fn, replay)

\* The line's timestamp after the emitter fn has sent a message for delivery
\* at d.  The callers of sendResponseUp and forwardMessage set it themselves.
setTimestamp(fn, d) ==
  CASE fn \in {"sendResponseDownFromMSHR", "sendAckInv", "sendWritebackAck",
               "sendWritebackFromMSHR", "sendFlushResponse"} -> lineTimestamp
    [] fn = "forwardFlushLine" -> d - 1
    [] OTHER -> d

\* A MESI directory above the last level whose clock and latencies are
\* followed; nothing has been sent for the line.
InitTime ==
  /\ protocol = TRUE /\ lastLevel = FALSE
  /\ expectWritebackAck = TRUE /\ writebackCleanBlocks = FALSE
  /\ limit = MaxIssued /\ nacks = FALSE
  /\ Constructed /\ NoMotif
  /\ timestamp_ = 0 /\ lineTimestamp = 0 /\ lastSend = NoSend
  /\ tagLatency_ \in 1..MaxLatency /\ mshrLatency_ \in 1..MaxLatency
  /\ accessLatency_ \in 1..MaxLatency

\* The engine's clock advances.
Tick ==
  /\ timestamp_ < MaxTime
  /\ timestamp_' = timestamp_ + 1
  /\ UNCHANGED <<cfgVars, shmemVars, lineVars, mshrVars, callVars, envVars, lineTimestamp,
                 tagLatency_, mshrLatency_, accessLatency_, lastSend>>

\* A handler calls the emitter fn, which sends a message for the line.
Send(fn, replay) ==
  /\ LET d == deliveryTime(fn, replay)
     IN /\ d <= MaxStamp
        /\ lineTimestamp' = setTimestamp(fn, d)
        /\ lastSend' = [by |-> fn, replay |-> replay, now |-> timestamp_,
                        before |-> lineTimestamp, deliveryTime |-> d]
  /\ UNCHANGED <<cfgVars, shmemVars, lineVars, mshrVars, callVars, envVars, timestamp_,
                 tagLatency_, mshrLatency_, accessLatency_>>

NextTime ==
  \/ Tick
  \/ \E fn \in Senders, replay \in BOOLEAN :
       (replay => fn \in ReplaySenders) /\ Send(fn, replay)

SpecTime == InitTime /\ [][NextTime]_vars

\* ------------------------------------------------------------------ claims

\* C1: in every reachable state a directory line that has an owner has an
\* empty sharer set.
C1_OwnerExcludesSharers == owner # NoOwner => sharers = {}
\* C2: an invalidation (Inv, ForceInv, Fetch, FetchInv, FetchInvX) handled
\* while the writeback marker of the address is pending removes the marker,
\* returns DONE, leaves state, sharers and owner as they were and emits no
\* message.
C2_MarkerConsumesInvalidation ==
  (lastOp = "invalidation" /\ pre.wb) =>
    /\ ~pendingWb /\ lastAction = "DONE" /\ ~fatal
    /\ state = pre.state /\ sharers = pre.sharers /\ owner = pre.owner
    /\ out = <<>>

\* C2 witness: a FetchInv of the parent was handled in a transient state
\* while the marker was pending.
C2_Witness ==
  /\ lastOp = "invalidation" /\ pre.wb /\ lastEv.cmd \in InvCmds
  /\ pre.state \notin Stable /\ lastAction = "DONE"
\* C3: whenever handleRequest returns STALL (first attempt or replay) the
\* request is in the MSHR queue of its address when the call returns.
C3_StalledRequestIsQueued ==
  (lastOp = "request" /\ lastAction = "STALL" /\ ~fatal) =>
    \E i \in DOMAIN mshr : mshr[i] = lastEv
\* C4: after every handled event acksNeeded is 0 exactly when the line is
\* in a stable state (I, S, E, M) or in a state that waits only for the
\* parent (IS, IM, SM, S_B, I_B).
C4_AcksMatchState ==
  ~fatal => (acksNeeded = 0 <=> state \in Stable \cup ParentWait)
\* C5: while the writeback marker is pending, exactly one PutS/PutE/PutM
\* emitted towards the parent awaits its acknowledgement.
C5_MarkerMeansOneWriteback == pendingWb => unacked = 1
\* The call just made emitted a PutS, PutE or PutM towards the parent.
emittedWriteback == \E i \in DOMAIN out : out[i].cmd \in PutCmds /\ out[i].dst = Parent

\* C6: with expectWritebackAck, every call that emits a PutS/PutE/PutM
\* towards the parent leaves the writeback marker pending, and a pending
\* marker is cleared only by an AckPut or by an invalidation taken as the
\* AckPut.
C6_WritebackSetsMarker ==
  expectWritebackAck =>
    /\ emittedWriteback => pendingWb
    /\ (pre.wb /\ ~pendingWb) =>
         \/ lastOp = "invalidation"
         \/ lastOp = "response" /\ lastEv.cmd = "AckPut"
\* Every sharer of the line the call found had a PutS waiting, and these
\* PutS were the first entries of the MSHR queue of the address.
putSOfEverySharer ==
  /\ pre.sharers # {}
  /\ Len(pre.mshr) >= Cardinality(pre.sharers)
  /\ \A i \in 1..Cardinality(pre.sharers) :
       pre.mshr[i].cmd = "PutS" /\ pre.mshr[i].src \in pre.sharers
  /\ \A c \in pre.sharers : \E i \in 1..Cardinality(pre.sharers) : pre.mshr[i].src = c

\* An Inv of the parent reached handleInv (no writeback marker, room in
\* the MSHR) on a line in S of which every sharer had a PutS at the head of
\* the MSHR.
invMeetsPutS ==
  /\ lastOp = "invalidation" /\ lastEv.cmd = "Inv" /\ ~pre.wb /\ ~lastDenied
  /\ pre.state = "S" /\ putSOfEverySharer

\* The Inv consumed the waiting PutS and completed.
invConsumedPutS ==
  /\ sharers = {} /\ acksNeeded = 0 /\ state = "I" /\ lastAction = "DONE" /\ ~fatal
  /\ \E i \in DOMAIN out : out[i].cmd = "AckInv" /\ out[i].dst = Parent
  /\ \A i \in DOMAIN mshr : mshr[i].cmd # "PutS" \/ mshr[i].src \notin pre.sharers
  /\ \A i \in DOMAIN replayQ : replayQ[i].cmd # "PutS" \/ replayQ[i].src \notin pre.sharers

\* C7: an Inv for a line in S whose every sharer has a PutS at the head of
\* the MSHR consumes each PutS and ends with no sharers, no acknowledgement
\* awaited, an AckInv to the parent, the line in I, disposition DONE and no
\* consumed PutS left in the MSHR.
C7_InvConsumesPutS == invMeetsPutS => invConsumedPutS

\* A FetchInv or FetchInvX of the parent was dispatched on a line in S, E
\* or M while a PutS/PutE/PutM waited at the head of the MSHR.
fetchInvMeetsPut ==
  /\ lastOp = "invalidation" /\ lastEv.cmd \in {"FetchInv", "FetchInvX"}
  /\ ~pre.wb /\ ~lastDenied
  /\ pre.mshr # <<>> /\ Head(pre.mshr).cmd \in PutCmds
  /\ pre.state \in {"S", "E", "M"}

\* States of a line whose data the hierarchy below may have modified.
MDerived == {"M", "M_Inv", "M_InvX", "M_D", "MI"}

\* The call just made answered the parent with a dirty FetchResp/FetchXResp.
dirtyResponse ==
  \E i \in DOMAIN out :
    /\ out[i].cmd \in {"FetchResp", "FetchXResp"} /\ out[i].dst = Parent
    /\ out[i].dirty

\* C8: a FetchInv/FetchInvX that collides with a Put at the
\* MSHR head is dispatched on the state after the Put: a line in S does
\* not become M-derived, a line in E becomes M-derived only when the Put is
\* dirty, and the response to the parent is dirty only if the line was M or
\* the Put was dirty.
C8_FetchInvAfterPut ==
  (fetchInvMeetsPut /\ ~fatal) =>
    /\ pre.state = "S" => state \notin MDerived
    /\ (pre.state = "E" /\ ~Head(pre.mshr).dirty) => state \notin MDerived
    /\ dirtyResponse => (pre.state = "M" \/ Head(pre.mshr).dirty)

\* The directory evicted an uncached line in S whose only sharer had a PutS
\* waiting at the head of the MSHR.
evictionMeetsPutS ==
  /\ lastOp = "eviction" /\ pre.state = "S" /\ ~pre.cached
  /\ pre.mshr # <<>> /\ Head(pre.mshr).cmd = "PutS"
  /\ pre.sharers = {Head(pre.mshr).src}

\* The messages of the call just made that are PutS to the parent.
putSToParent == {i \in DOMAIN out : out[i].cmd = "PutS" /\ out[i].dst = Parent}

\* The eviction consumed the waiting PutS and wrote the block back with
\* one PutS of the given payload.
evictionWroteBack(payload) ==
  /\ sharers = {} /\ dataBuffer = Head(pre.mshr).payload /\ mshr = Tail(pre.mshr)
  /\ Cardinality(putSToParent) = 1
  /\ \A i \in putSToParent : out[i].payload = payload /\ ~out[i].dirty
  /\ \A i \in DOMAIN out : i \in putSToParent
  /\ pendingWb = expectWritebackAck
  /\ state = "I" /\ lastAction = "DONE" /\ ~fatal

\* C9 (as stated): the eviction of an uncached line in S whose only sharer
\* has a PutS at the MSHR head consumes the PutS, emits exactly one PutS to
\* the parent that carries the payload of the consumed PutS, sets the
\* writeback marker iff expectWritebackAck, leaves the line in I and returns
\* DONE.
C9_EvictionCarriesPayload ==
  evictionMeetsPutS => evictionWroteBack(Head(pre.mshr).payload)

\* C9 (amended): as above, but the emitted PutS carries the payload of the
\* consumed PutS only when writebackCleanBlocks is set and no payload
\* otherwise.
C9_EvictionMergesPutS ==
  evictionMeetsPutS =>
    evictionWroteBack(IF writebackCleanBlocks THEN Head(pre.mshr).payload ELSE NoData)

\* C9 witness: such an eviction happened with clean blocks written back
\* without data, and the consumed PutS carried data.
C9_Witness ==
  /\ evictionMeetsPutS /\ ~writebackCleanBlocks /\ expectWritebackAck
  /\ Head(pre.mshr).payload # NoData
  /\ state = "I" /\ lastAction = "DONE" /\ pendingWb

\* A GetS was handled on a line in I that the directory holds or could
\* allocate.
getSInI ==
  /\ lastOp = "request" /\ lastEv.cmd = "GetS" /\ pre.state = "I" /\ ~lastDenied

\* The response of the parent to a GetS that waits in IS at the head of the
\* MSHR was handled.
getSAnswered ==
  /\ lastOp = "cacheResponse" /\ lastEv.cmd \in {"GetSResp", "GetXResp"}
  /\ pre.state = "IS" /\ pre.mshr # <<>> /\ Head(pre.mshr).cmd = "GetS"

\* The call just made sent the payload of the parent to the child c.
forwardedData(c) ==
  \E i \in DOMAIN out :
    /\ out[i].dst = c /\ out[i].cmd \in {"GetSResp", "GetXResp"}
    /\ out[i].payload = lastEv.payload

\* C10: a GetS for a line in I forwards a GetS to the parent, moves the
\* line to IS and returns STALL; the response of the parent settles the
\* line to E with the requestor as owner iff protocol is set and the
\* response is a GetXResp, and otherwise to S with the requestor as the
\* only sharer; either way the payload of the parent is sent to the
\* requestor and the disposition is DONE.
C10_GetSMiss ==
  /\ getSInI =>
       /\ state = "IS" /\ lastAction = "STALL" /\ ~fatal
       /\ out = <<Msg("GetS", Parent, NoData, FALSE)>>
  /\ getSAnswered =>
       /\ IF protocol /\ lastEv.cmd = "GetXResp"
            THEN state = "E" /\ owner = Head(pre.mshr).src
            ELSE state = "S" /\ sharers = {Head(pre.mshr).src}
       /\ forwardedData(Head(pre.mshr).src)
       /\ lastAction = "DONE" /\ ~fatal

\* A GetX of a sharer was handled on a cached line in S with exactly one
\* other sharer, not at the last level.
upgradeBegins ==
  /\ lastOp = "request" /\ lastEv.cmd = "GetX" /\ ~lastLevel
  /\ pre.state = "S" /\ pre.cached
  /\ lastEv.src \in pre.sharers /\ Cardinality(pre.sharers) = 2

\* The Inv messages of the call just made.
invsSent == {i \in DOMAIN out : out[i].cmd = "Inv"}

\* The upgrade invalidated the other sharer and waits for its AckInv.
upgradeInvalidates ==
  /\ Cardinality(invsSent) = 1
  /\ \A i \in invsSent : {out[i].dst} = pre.sharers \ {lastEv.src}
  /\ \A i \in DOMAIN out : out[i].dst \in Children => i \in invsSent
  /\ acksNeeded = 1 /\ state = "SM_Inv" /\ lastAction = "STALL" /\ ~fatal

\* The AckInv of the other sharer was handled while the upgrade (the GetX at
\* the head of the MSHR) waited in SM_Inv for this one acknowledgement.
upgradeAcked ==
  /\ lastOp = "response" /\ lastEv.cmd = "AckInv"
  /\ pre.state = "SM_Inv" /\ pre.acks = 1
  /\ pre.mshr # <<>> /\ Head(pre.mshr).cmd = "GetX"
  /\ pre.sharers = {Head(pre.mshr).src, lastEv.src}
  /\ lastEv.src # Head(pre.mshr).src

\* After the AckInv the line waits in SM with the GetX still pending and the
\* given sharer set.
upgradeWaits(left) ==
  /\ sharers = left /\ acksNeeded = 0 /\ state = "SM" /\ ~fatal
  /\ mshr # <<>> /\ Head(mshr) = Head(pre.mshr)

\* The GetXResp of the parent was handled for the GetX that waited in SM.
upgradeAnswered ==
  /\ lastOp = "cacheResponse" /\ lastEv.cmd = "GetXResp"
  /\ pre.state = "SM" /\ pre.mshr # <<>> /\ Head(pre.mshr).cmd = "GetX"
  /\ pre.sharers \subseteq {Head(pre.mshr).src}

\* The requestor owns the line in M and was sent the response.
upgradeDone ==
  /\ state = "M" /\ owner = Head(pre.mshr).src /\ sharers = {} /\ ~fatal
  /\ \E i \in DOMAIN out : out[i].cmd = "GetXResp" /\ out[i].dst = Head(pre.mshr).src

\* C11 (as stated): the GetX upgrade of a sharer of a cached S line with one
\* other sharer emits one Inv to that sharer, sets acksNeeded to 1, moves
\* the line to SM_Inv and returns STALL; after the AckInv the sharer set is
\* empty, acksNeeded is 0 and the line is in SM with the GetX pending; after
\* the GetXResp the line is in M, owned by the requestor, without sharers,
\* and the requestor was sent a response.
C11_UpgradeEmptiesSharers ==
  /\ upgradeBegins => upgradeInvalidates
  /\ upgradeAcked => upgradeWaits({})
  /\ upgradeAnswered => upgradeDone

\* C11 (amended): as above, but after the AckInv the requestor is still
\* recorded as the one sharer; it leaves the sharer set with the GetXResp.
C11_UpgradeKeepsRequestor ==
  /\ upgradeBegins => upgradeInvalidates
  /\ upgradeAcked => upgradeWaits({Head(pre.mshr).src})
  /\ upgradeAnswered => upgradeDone

\* C11 witness: the AckInv of the other sharer was handled for the upgrade
\* of a cached line, and the requestor is the one sharer left.
C11_Witness ==
  /\ upgradeAcked /\ pre.cached
  /\ state = "SM" /\ sharers = {Head(pre.mshr).src} /\ acksNeeded = 0

\* A GetS was handled on a line in M that another child owns.
getSMeetsOwner ==
  /\ lastOp = "request" /\ lastEv.cmd = "GetS" /\ pre.state = "M"
  /\ pre.owner # NoOwner /\ pre.owner # lastEv.src

\* The FetchXResp of the owner was handled for the GetS of another child
\* that waited in M_InvX for this one answer.
ownerAnswersGetS ==
  /\ lastOp = "response" /\ lastEv.cmd = "FetchXResp"
  /\ pre.state = "M_InvX" /\ pre.owner = lastEv.src /\ pre.acks = 1
  /\ pre.mshr # <<>> /\ Head(pre.mshr).cmd = "GetS"
  /\ Head(pre.mshr).src # lastEv.src

\* C12: a GetS for a line in M owned by another child emits exactly one
\* FetchInvX, to the owner, sets acksNeeded to 1, moves the line to M_InvX
\* and returns STALL; the FetchXResp of the owner then clears the owner,
\* makes owner and requestor the sharers, returns the line to M, sends the
\* owner's payload to the requestor and returns DONE, the GetS leaving the
\* MSHR.
C12_GetSDowngradesOwner ==
  /\ getSMeetsOwner =>
       /\ out = <<Msg("FetchInvX", pre.owner, NoData, FALSE)>>
       /\ acksNeeded = 1 /\ state = "M_InvX" /\ lastAction = "STALL" /\ ~fatal
  /\ ownerAnswersGetS =>
       /\ owner = NoOwner /\ sharers = {lastEv.src, Head(pre.mshr).src}
       /\ state = "M" /\ lastAction = "DONE" /\ ~fatal
       /\ \E i \in DOMAIN out :
            /\ out[i].dst = Head(pre.mshr).src /\ out[i].payload = lastEv.payload
            /\ out[i].cmd \in {"GetSResp", "GetXResp"}
       /\ mshr \o replayQ = Tail(pre.mshr)

\* C12 witness: the owner answered with dirty data and the requestor was
\* sent that data.
C12_Witness ==
  /\ ownerAnswersGetS /\ lastEv.dirty /\ lastEv.payload # NoData
  /\ state = "M" /\ owner = NoOwner /\ Cardinality(sharers) = 2
  /\ lastAction = "DONE"

\* A FlushLineInv was handled on a line in E that another child owns.
flushInvMeetsOwner ==
  /\ lastOp = "flush" /\ lastEv.cmd = "FlushLineInv" /\ pre.state = "E"
  /\ pre.owner # NoOwner /\ pre.owner # lastEv.src

\* The dirty FetchResp of the owner was handled for the FlushLineInv of
\* another child that waited in E_Inv at the head of the MSHR.
ownerAnswersFlush ==
  /\ lastOp = "response" /\ lastEv.cmd = "FetchResp" /\ lastEv.dirty
  /\ pre.state = "E_Inv" /\ pre.owner = lastEv.src
  /\ pre.mshr # <<>> /\ Head(pre.mshr).cmd = "FlushLineInv"
  /\ Head(pre.mshr).src # lastEv.src

\* The FlushLineResp of the parent was handled for the FlushLineInv that
\* waited in I_B at the head of the MSHR.
flushInvAnswered ==
  /\ lastOp = "cacheResponse" /\ lastEv.cmd = "FlushLineResp"
  /\ pre.state = "I_B" /\ pre.mshr # <<>> /\ Head(pre.mshr).cmd = "FlushLineInv"

\* C13: a FlushLineInv for a line in E owned by another child emits a
\* FetchInv to the owner, moves the line to E_Inv and stalls; the dirty
\* FetchResp of the owner clears the owner, forwards a dirty FlushLineInv
\* with the owner's payload to the parent and leaves the line in I_B, the
\* flush still waiting; the FlushLineResp of the parent moves the line to
\* I, sends the child a flush response with the parent's success flag and
\* returns DONE.
C13_FlushInvFetchesOwner ==
  /\ flushInvMeetsOwner =>
       /\ out = <<Msg("FetchInv", pre.owner, NoData, FALSE)>>
       /\ state = "E_Inv" /\ lastAction = "STALL" /\ ~fatal
  /\ ownerAnswersFlush =>
       /\ owner = NoOwner
       /\ out = <<Msg("FlushLineInv", Parent, lastEv.payload, TRUE)>>
       /\ state = "I_B" /\ lastAction = "STALL" /\ ~fatal
       /\ mshr # <<>> /\ Head(mshr) = Head(pre.mshr)
  /\ flushInvAnswered =>
       /\ state = "I" /\ lastAction = "DONE" /\ ~fatal
       /\ out = <<[Msg("FlushLineResp", Head(pre.mshr).src, NoData, FALSE)
                     EXCEPT !.success = lastEv.success]>>

\* C13 witness: the owner answered the FetchInv with dirty data, which went
\* to the parent in the forwarded FlushLineInv.
C13_Witness ==
  /\ ownerAnswersFlush /\ lastEv.payload # NoData
  /\ state = "I_B" /\ owner = NoOwner /\ lastAction = "STALL"
  /\ \E i \in DOMAIN out :
       out[i].cmd = "FlushLineInv" /\ out[i].dirty /\ out[i].payload = lastEv.payload

\* The last AckInv awaited was handled while a FlushLineInv waited at the
\* head of the MSHR for the other sharers to be invalidated.
lastAckForFlushInv ==
  /\ lastOp = "response" /\ lastEv.cmd = "AckInv"
  /\ pre.state \in {"S_Inv", "E_Inv", "M_Inv"} /\ pre.acks = 1
  /\ pre.owner = NoOwner /\ lastEv.src \in pre.sharers
  /\ pre.mshr # <<>> /\ Head(pre.mshr).cmd = "FlushLineInv"

\* C14: when the last AckInv arrives for a FlushLineInv that stalled in
\* S_Inv, E_Inv or M_Inv because of other sharers, the flush is forwarded
\* to the parent and the line moves to I_B with the flush still waiting; no
\* AckInv goes to the parent and the flushing child does not become owner.
C14_LastAckForwardsFlush ==
  lastAckForFlushInv =>
    /\ \E i \in DOMAIN out : out[i].cmd = "FlushLineInv" /\ out[i].dst = Parent
    /\ state = "I_B" /\ acksNeeded = 0 /\ ~fatal
    /\ mshr # <<>> /\ Head(mshr) = Head(pre.mshr)
    /\ \A i \in DOMAIN out : out[i].cmd # "AckInv"
    /\ owner # Head(pre.mshr).src

\* An invalidation was handed to handleInvalidationRequest while the MSHR
\* was full and no writeback marker was pending for the address.
invMeetsFullMSHR ==
  /\ lastOp = "invalidation" /\ lastEv.cmd \in InvCmds /\ lastDenied /\ ~pre.wb

\* C19: with the MSHR full and no writeback marker pending,
\* handleInvalidationRequest returns STALL whatever the command and the
\* state of the line, keeps the event in the MSHR queue of the address,
\* leaves state, sharers, owner and acksNeeded as they were and emits no
\* message.
C19_FullMSHRStallsInvalidation ==
  invMeetsFullMSHR =>
    /\ lastAction = "STALL" /\ ~fatal
    /\ \E i \in DOMAIN mshr : mshr[i] = lastEv
    /\ state = pre.state /\ sharers = pre.sharers /\ owner = pre.owner
    /\ acksNeeded = pre.acks
    /\ out = <<>>

\* C19 witness: a FetchInv met the full MSHR while the line, with sharers,
\* was in a transient state and other events waited on the address.
C19_Witness ==
  /\ invMeetsFullMSHR /\ lastEv.cmd = "FetchInv"
  /\ pre.state \notin Stable /\ pre.sharers # {} /\ pre.mshr # <<>>
  /\ lastAction = "STALL" /\ state = pre.state /\ Head(mshr) = lastEv

\* handleEviction was called on a line in a transient state.
evictionInTransition ==
  /\ lastOp \in {"eviction", "evictionData"} /\ pre.state \notin Stable

nackOfPut == lastOp = "nack" /\ lastEv.nacked.cmd \in PutCmds

\* The call sent the NACKed message again, and nothing else.
nackResent == out = <<lastEv.nacked>>

\* The call sent nothing.
nackDropped == out = <<>>

\* C15: a NACKed PutS/PutE/PutM is sent again exactly when the writeback
\* marker of the address is still pending, and is dropped otherwise, whether
\* or not writeback acknowledgements are in use.
C15_PutResentOnlyIfMarked ==
  nackOfPut => /\ nackResent <=> pre.wb
               /\ ~pre.wb => nackDropped

\* C15 (amended): with writeback acknowledgements in use a NACKed
\* PutS/PutE/PutM is sent again exactly when the writeback marker is still
\* pending and is dropped otherwise; without them it is always sent again.
C15_PutResentUnlessAcked ==
  nackOfPut => /\ ~fatal /\ lastAction = "DONE"
               /\ nackResent <=> (pre.wb \/ ~expectWritebackAck)
               /\ (expectWritebackAck /\ ~pre.wb) => nackDropped

\* A NACKed writeback is sent again although no acknowledgement is in use.
C15_Witness ==
  nackOfPut /\ ~expectWritebackAck /\ ~pre.wb /\ nackResent /\ down # <<>>

\* A NACKed writeback whose marker an invalidation has cleared is dropped.
C15_Dropped == nackOfPut /\ expectWritebackAck /\ ~pre.wb /\ nackDropped

\* A NACKed writeback whose acknowledgement is still awaited is sent again.
C15_Marked == nackOfPut /\ expectWritebackAck /\ pre.wb /\ nackResent


\* The engine has handled the NACK of a request, invalidation or fetch.
nackOfRequest == lastOp = "nack" /\ lastEv.nacked.cmd \notin PutCmds

\* C16: on a NACK, in every line state, GetS/GetX/GetSX are sent again;
\* FetchInvX is sent again exactly when its destination is still the owner;
\* FetchInv exactly when its destination is still owner or sharer; Fetch and
\* Inv exactly when their destination is still a sharer; a message that is
\* not sent again is dropped.
C16_NackPolicy ==
  nackOfRequest =>
    LET cmd == lastEv.nacked.cmd
        dst == lastEv.nacked.dst
    IN /\ ~fatal /\ lastAction = "DONE"
       /\ cmd \in GetCmds => nackResent
       /\ cmd = "FetchInvX" => (nackResent <=> pre.owner = dst)
       /\ cmd = "FetchInv" => (nackResent <=> (pre.owner = dst \/ dst \in pre.sharers))
       /\ cmd \in {"Fetch", "Inv"} => (nackResent <=> dst \in pre.sharers)
       /\ ~nackResent => nackDropped
       /\ state = pre.state /\ sharers = pre.sharers /\ owner = pre.owner

\* An invalidation whose destination has left the sharers is dropped.
C16_Witness ==
  /\ nackOfRequest /\ lastEv.nacked.cmd \in {"Inv", "Fetch", "FetchInv"}
  /\ lastEv.nacked.dst \notin pre.sharers /\ pre.owner # lastEv.nacked.dst
  /\ nackDropped

\* A fetch whose destination still owns the block is sent again.
C16_OwnerResent ==
  /\ nackOfRequest /\ lastEv.nacked.cmd \in {"FetchInv", "FetchInvX"}
  /\ pre.owner = lastEv.nacked.dst /\ nackResent

\* A FetchInvX whose destination no longer owns the block is dropped.
C16_OwnerGone ==
  /\ nackOfRequest /\ lastEv.nacked.cmd = "FetchInvX"
  /\ pre.owner # lastEv.nacked.dst /\ nackDropped

\* An invalidation whose destination still shares the block is sent again.
C16_SharerResent ==
  /\ nackOfRequest /\ lastEv.nacked.cmd \in {"Inv", "Fetch"}
  /\ lastEv.nacked.dst \in pre.sharers /\ nackResent

\* A NACK finds the line invalid while its directory entry names a child.
C16_InvalidNamed ==
  nackOfRequest /\ pre.state = "I" /\ (pre.sharers # {} \/ pre.owner # Parent)


\* A message has been sent for the line.
sentForLine == lastSend.by # "none"

\* C17: every message sent for the line has a delivery time that is neither
\* before the engine's time of the send nor before the timestamp the line
\* had just before the send.
C17_DeliveryNotBeforeStamp ==
  sentForLine => /\ lastSend.deliveryTime >= lastSend.now
                 /\ lastSend.deliveryTime >= lastSend.before

\* C18: after a message has been sent for the line, the line's timestamp is
\* the delivery time of that message and is not less than it was before the
\* send.
C18_StampIsDeliveryTime ==
  sentForLine => /\ lineTimestamp = lastSend.deliveryTime
                 /\ lineTimestamp >= lastSend.before

\* A send moved the line's timestamp back.
C18_StampMovedBack == sentForLine /\ lineTimestamp < lastSend.before


\* The messages of the call that carry the command cmd.
outWith(cmd) == {i \in DOMAIN out : out[i].cmd = cmd}

\* The directory side has called handleEviction with no Put waiting.
evictsNoPut ==
  /\ lastOp = "eviction"
  /\ ~(pre.mshr # <<>> /\ Head(pre.mshr).cmd \in PutCmds)

\* C21: an eviction from the directory side with no Put waiting.  On an S
\* line with n >= 1 sharers every sharer gets one invalidation, one of them a
\* FetchInv exactly when the block is uncached and the others Inv, the
\* acknowledgement count goes up by n, the line goes to SI and the call
\* returns STALL.  On an E or M line with an owner the owner gets one
\* FetchInv and nothing else is sent, the count goes up by 1, the line goes
\* to EI or MI and the call returns STALL.  On a line in I the call returns
\* DONE and sends nothing.
C21_EvictionInvalidates ==
  evictsNoPut =>
    /\ (pre.state = "S" /\ pre.sharers # {}) =>
         /\ ~fatal /\ lastAction = "STALL" /\ state = "SI"
         /\ Len(out) = Cardinality(pre.sharers)
         /\ {out[i].dst : i \in DOMAIN out} = pre.sharers
         /\ \A i \in DOMAIN out : out[i].cmd \in {"Inv", "FetchInv"}
         /\ Cardinality(outWith("FetchInv")) = IF pre.cached THEN 0 ELSE 1
         /\ acksNeeded = pre.acks + Cardinality(pre.sharers)
    /\ (pre.state \in {"E", "M"} /\ pre.owner # NoOwner) =>
         /\ ~fatal /\ lastAction = "STALL"
         /\ state = IF pre.state = "E" THEN "EI" ELSE "MI"
         /\ out = <<Msg("FetchInv", pre.owner, NoData, FALSE)>>
         /\ acksNeeded = pre.acks + 1
    /\ pre.state = "I" => (~fatal /\ lastAction = "DONE" /\ out = <<>>)

\* An uncached S line with two sharers is evicted: a FetchInv and an Inv.
C21_Witness ==
  /\ evictsNoPut /\ pre.state = "S" /\ ~pre.cached /\ Cardinality(pre.sharers) = 2
  /\ state = "SI" /\ Len(out) = 2 /\ lastAction = "STALL"

\* An owned line is evicted.
C21_Owned ==
  evictsNoPut /\ pre.state \in {"E", "M"} /\ pre.owner # NoOwner /\ lastAction = "STALL"

\* A cached S line with sharers is evicted.
C21_Cached == evictsNoPut /\ pre.state = "S" /\ pre.cached /\ pre.sharers # {}

\* A line in I is evicted.
C21_Invalid == evictsNoPut /\ pre.state = "I" /\ lastAction = "DONE"


\* C22: when a request misses and the replacement candidate is a valid line
\* in a transient state, the candidate is not evicted: its state, sharers and
\* owner stay as they were, nothing is sent, a pointer from the candidate's
\* address to the requesting address is inserted in the MSHR, the request
\* joins the MSHR of its address and handleRequest returns STALL.
C22_TransientCandidateKept ==
  [][(lastOp' = "miss" /\ state # "I" /\ state \notin Stable) =>
       /\ state' = state /\ sharers' = sharers /\ owner' = owner
       /\ cached' = cached /\ mshr' = mshr /\ acksNeeded' = acksNeeded
       /\ out' = <<>> /\ ~fatal'
       /\ pointers' = pointers + 1
       /\ otherMSHR' = Append(otherMSHR, lastEv')
       /\ lastAction' = "STALL"]_vars

\* A request has missed on a candidate that waits for its own GetS.
C22_Witness ==
  /\ lastOp = "miss" /\ pre.state = "IS" /\ state = "IS"
  /\ pointers > 0 /\ otherMSHR # <<>> /\ lastAction = "STALL"


\* C23: isCacheHit is a query: for every event and every line state it
\* leaves the line's state, sharers, owner, data binding and timestamp and
\* the MSHR as they were and sends nothing; the promotion of S to M at the
\* last level stays inside the query.
C23_QueryLeavesState ==
  [][lastOp' = "query" =>
       /\ UNCHANGED <<lineVars, mshrVars, lineTimestamp, pointers, otherMSHR>>
       /\ out' = <<>> /\ ~fatal']_vars

\* The query has read a line in S at the last level as a line in M: a GetX
\* of its only sharer hits, and the line is still in S.
C23_Witness ==
  /\ lastOp = "query" /\ lastLevel /\ pre.state = "S" /\ state = "S"
  /\ lastEv.cmd = "GetX" /\ sharers = {lastEv.src} /\ lastAction = "HIT"


\* The engine at the last level has handled a GetX or GetSX for a line in S.
writeAtLastLevel ==
  /\ lastOp = "request" /\ lastEv.cmd \in {"GetX", "GetSX"}
  /\ lastLevel /\ pre.state = "S"

\* The sharers the request of the call has to invalidate.
othersBefore == pre.sharers \ {lastEv.src}

\* C24: at the last level a GetX or GetSX for a line in S sends nothing to
\* the parent and does not enter SM or SM_Inv: the line becomes M in place;
\* with no other sharer the request completes at once with the requestor as
\* owner, otherwise the other sharers are invalidated and the request stalls
\* in M_Inv.
C24_LastLevelUpgradesInPlace ==
  writeAtLastLevel =>
    /\ ~fatal
    /\ \A i \in DOMAIN out : out[i].dst # Parent
    /\ state \notin {"SM", "SM_Inv"}
    /\ IF othersBefore = {}
         THEN /\ lastAction = "DONE" /\ state = "M" /\ owner = lastEv.src
              /\ sharers = {}
              /\ Len(out) = 1 /\ out[1].cmd = "GetXResp" /\ out[1].dst = lastEv.src
         ELSE /\ lastAction = "STALL" /\ state = "M_Inv"
              /\ {out[i].dst : i \in DOMAIN out} = othersBefore
              /\ Len(out) = Cardinality(othersBefore)
              /\ \A i \in DOMAIN out : out[i].cmd \in {"Inv", "FetchInv"}
              /\ acksNeeded = pre.acks + Cardinality(othersBefore)

\* A GetSX of one of two sharers stalls in M_Inv at the last level.
C24_Witness ==
  /\ writeAtLastLevel /\ lastEv.cmd = "GetSX" /\ othersBefore # {}
  /\ lastEv.src \in pre.sharers /\ state = "M_Inv" /\ lastAction = "STALL"

\* A GetX of the only sharer completes at once at the last level.
C24_Alone ==
  /\ writeAtLastLevel /\ lastEv.cmd = "GetX" /\ othersBefore = {}
  /\ state = "M" /\ owner = lastEv.src /\ lastAction = "DONE"


\* The engine at the last level has handled a GetS for a line in S.
readAtLastLevel ==
  /\ lastOp = "request" /\ lastEv.cmd = "GetS" /\ lastLevel /\ pre.state = "S"

\* C25: at the last level a GetS for a line in S finds the line promoted to
\* M before the request is dispatched on the state: the request is handled
\* as on a line in M and leaves the line in M or in a state that waits on M.
C25_LastLevelPromotesOnGetS ==
  readAtLastLevel => state \in {"M", "M_D", "M_InvX"}

\* ---------------------------------------------------------------------
\* C26: an event a handler returned STALL for, handled again on the state
\* that handling left, with no other event in between and with the same
\* answer of the cache array and of the MSHR, returns STALL again.
C26_StallRepeats ==
  [][lastOp = "retry" /\ lastDenied' = lastDenied => lastAction' = "STALL"]_vars

\* ---------------------------------------------------------------------
\* C27: after every handled event a line in S, E or M without data line
\* has an owner, a sharer, or its data in the MSHR data buffer.
uncachedStable == ~fatal /\ state \in {"S", "E", "M"} /\ ~cached

C27_UncachedDataReachable ==
  uncachedStable => owner # NoOwner \/ sharers # {} \/ dataBuffer # NoData

\* ---------------------------------------------------------------------
\* C28: an emitted PutM is dirty and carries a payload; an emitted PutS or
\* PutE is never dirty and carries a payload exactly when
\* writeback_clean_blocks is enabled.
putsOut(cmds) == {i \in DOMAIN out : out[i].dst = Parent /\ out[i].cmd \in cmds}

C28_PutMDirty == \A i \in putsOut({"PutM"}) : out[i].dirty

C28_PutMPayload == \A i \in putsOut({"PutM"}) : out[i].payload # NoData

C28_CleanNeverDirty == \A i \in putsOut({"PutS", "PutE"}) : ~out[i].dirty

C28_CleanPayloadOnlyIfEnabled ==
  \A i \in putsOut({"PutS", "PutE"}) : out[i].payload # NoData => writebackCleanBlocks

C28_CleanPayloadIfEnabled ==
  \A i \in putsOut({"PutS", "PutE"}) : writebackCleanBlocks => out[i].payload # NoData

C28_WritebackPayload ==
  /\ C28_PutMDirty /\ C28_PutMPayload /\ C28_CleanNeverDirty
  /\ C28_CleanPayloadOnlyIfEnabled /\ C28_CleanPayloadIfEnabled

\* ---------------------------------------------------------------------
\* C29: with children and a parent that follow the protocol no handler
\* reaches a fatal-diagnostic branch.
C29_NoFatalBranch == ~fatal

\* ---------------------------------------------------------------------
\* C30: the response that completes a parent's FetchInv is dirty when the
\* line was in M_Inv or the last answer of a child was dirty, and clean
\* when the line was in E_Inv or S_Inv and the answer was clean, whether
\* the last ack is an AckInv, a FetchResp or a Put.
fetchInvDone ==
  {i \in DOMAIN out :
     /\ ~fatal /\ lastOp \in {"response", "replacement"}
     /\ pre.state \in {"M_Inv", "E_Inv", "S_Inv"}
     /\ pre.mshr # <<>> /\ Head(pre.mshr).cmd = "FetchInv"
     /\ out[i].dst = Parent /\ out[i].cmd = RespCmd("FetchInv")}

C30_FetchInvRespDirty ==
  \A i \in fetchInvDone :
    /\ pre.state = "M_Inv" \/ lastEv.dirty => out[i].dirty
    /\ pre.state \in {"E_Inv", "S_Inv"} /\ ~lastEv.dirty => ~out[i].dirty

\* ------------------------------------------- the Shmem putv motif (ember)
MaxPes == 4      \* n_pes is drawn from 1..MaxPes

\* A 32-bit word as its two 16-bit halves.
Half == 256 * 256
DeadHi == 57005  \* 0xdead, the upper half of 0xdead0000

Word(hi, lo) == [hi |-> hi % Half, lo |-> lo % Half]

\* 0xdead0000 + k in 32-bit arithmetic.
DeadPlus(k) == Word(DeadHi + (k \div Half), k)

PEs == 0 .. shmem.n_pes - 1

\* The events generate() enqueues in the phase ph.
enQ(ph) ==
  CASE ph = 0 -> <<"init">>
    [] ph = 1 -> <<"n_pes", "my_pe">>
    [] ph = 2 -> <<"malloc">>
    [] ph = 3 -> <<"barrier", "putv", "barrier">>
    [] OTHER -> <<>>

\* The value generate() hands to enQ_putv and the PE it is put to.
putValue(m_my_pe) == DeadPlus(m_my_pe)
putDest(m_my_pe) == (m_my_pe + 1) % shmem.n_pes

\* The word the assert of phase 4 compares m_ptr[0] with.
asserted(m_my_pe) == DeadPlus((m_my_pe + 1) % shmem.n_pes)

Motif(next) ==
  /\ shmem' = next
  /\ UNCHANGED <<cfgVars, lineVars, mshrVars, callVars, envVars, timeVars>>

\* generate() of the PE p, called when its queue has run empty: phase 3
\* clears the word and enqueues barrier, putv, barrier; phase 4 asserts.
generate(p) ==
  /\ shmem.evQ[p] = <<>> /\ shmem.m_phase[p] <= 4 /\ p \notin shmem.failed
  /\ LET ph == shmem.m_phase[p]
         zeroed == IF ph = 3 THEN [shmem EXCEPT !.m_ptr[p] = Word(0, 0)] ELSE shmem
         checked == IF ph = 4 /\ shmem.m_ptr[p] # asserted(p)
                      THEN [zeroed EXCEPT !.failed = @ \cup {p}] ELSE zeroed
     IN Motif([checked EXCEPT !.evQ[p] = enQ(ph), !.m_phase[p] = ph + 1])

\* init, n_pes, my_pe and malloc complete locally.
Local(p) ==
  /\ shmem.evQ[p] # <<>> /\ Head(shmem.evQ[p]) \in {"init", "n_pes", "my_pe", "malloc"}
  /\ Motif([shmem EXCEPT !.evQ[p] = Tail(@)])

\* putv: the value leaves for the word of the destination PE.
Putv(p) ==
  /\ shmem.evQ[p] # <<>> /\ Head(shmem.evQ[p]) = "putv"
  /\ Motif([shmem EXCEPT !.evQ[p] = Tail(@),
                         !.inFlight = @ \cup {[src |-> p, dst |-> putDest(p),
                                               value |-> putValue(p)]}])

\* The put arrives: the word of the destination PE is written.
PutArrives(m) ==
  /\ m \in shmem.inFlight
  /\ Motif([shmem EXCEPT !.m_ptr[m.dst] = m.value, !.inFlight = @ \ {m}])

\* The PE enters the barrier once its own puts are complete.
BarrierEnter(p) ==
  /\ shmem.evQ[p] # <<>> /\ Head(shmem.evQ[p]) = "barrier" /\ p \notin shmem.waiting
  /\ \A m \in shmem.inFlight : m.src # p
  /\ Motif([shmem EXCEPT !.waiting = @ \cup {p}])

\* Every PE is in the barrier: all of them leave it.
BarrierLeave ==
  /\ shmem.n_pes > 0 /\ shmem.waiting = PEs
  /\ Motif([shmem EXCEPT !.waiting = {},
                         !.evQ = [p \in PEs |-> Tail(shmem.evQ[p])]])

InitPutv ==
  /\ protocol = TRUE /\ lastLevel = FALSE
  /\ expectWritebackAck = TRUE /\ writebackCleanBlocks = FALSE
  /\ limit = 0 /\ nacks = FALSE
  /\ Constructed /\ Untimed
  /\ \E n \in 1..MaxPes :
       shmem = [n_pes |-> n, m_phase |-> [p \in 0..n-1 |-> 0],
                evQ |-> [p \in 0..n-1 |-> <<>>],
                m_ptr |-> [p \in 0..n-1 |-> Word(p + 1, p + 1)],
                waiting |-> {}, inFlight |-> {}, failed |-> {}]

NextPutv ==
  \/ \E p \in PEs : generate(p)
  \/ \E p \in PEs : Local(p)
  \/ \E p \in PEs : Putv(p)
  \/ \E m \in shmem.inFlight : PutArrives(m)
  \/ \E p \in PEs : BarrierEnter(p)
  \/ BarrierLeave

SpecPutv == InitPutv /\ [][NextPutv]_vars

\* ---------------------------------------------------------------------
\* C31: after the second barrier of the putv motif the word of every PE q
\* is 0xdead0000 + ((q + 1) mod n_pes), for every n_pes >= 1.
afterSecondBarrier(q) == shmem.m_phase[q] >= 4 /\ shmem.evQ[q] = <<>>

C31_PutvWord ==
  \A q \in PEs : afterSecondBarrier(q) => shmem.m_ptr[q] = asserted(q)

\* ---------------------------------------------------------------------
\* C32: a PutS that supplies the last ack of a line in SM_Inv whose MSHR
\* head is a GetX/GetSX waiting for the parent's data moves the line to SM
\* and leaves the GetX at the head of the MSHR.
putSEndsUpgradeAcks ==
  /\ ~fatal /\ lastOp = "replacement" /\ lastEv.cmd = "PutS"
  /\ pre.state = "SM_Inv" /\ pre.mshr # <<>>
  /\ Head(pre.mshr).cmd \in {"GetX", "GetSX"}
  /\ acksNeeded = 0 /\ pre.acks > 0

C32_UpgradeStaysQueued ==
  putSEndsUpgradeAcks =>
    state = "SM" /\ mshr # <<>> /\ Head(mshr) = Head(pre.mshr)

\* ---------------------------------------------------------------------
\* C33: an AckInv for a line in SI, EI or MI emits nothing and keeps the
\* state while acks are outstanding; the last ack emits exactly one
\* writeback of the state's type (PutS, PutE, PutM) and moves the line to
\* I.  No fatal diagnostic is reached.
ackInvInEviction ==
  lastOp = "response" /\ lastEv.cmd = "AckInv" /\ pre.state \in {"SI", "EI", "MI"}

putOfState(st) == IF st = "SI" THEN "PutS" ELSE IF st = "EI" THEN "PutE" ELSE "PutM"

C33_AckInvEndsEviction ==
  ackInvInEviction =>
    /\ ~fatal
    /\ acksNeeded > 0 => out = <<>> /\ state = pre.state
    /\ acksNeeded = 0 =>
         /\ Len(out) = 1 /\ out[1].cmd = putOfState(pre.state) /\ out[1].dst = Parent
         /\ state = "I"

\* ---------------------------------------------------------------------
\* C34: when the eviction of a line in E merges with a dirty Put of the
\* owner at the head of the MSHR, the writeback sent to the parent is a
\* PutM with dirty set that carries the payload of the Put.
evictionMergesDirtyPut ==
  /\ ~fatal /\ lastOp = "eviction" /\ pre.state = "E"
  /\ pre.mshr # <<>> /\ Head(pre.mshr).cmd \in PutCmds
  /\ Head(pre.mshr).dirty /\ Head(pre.mshr).src = pre.owner

C34_DirtyMergeWritesBackPutM ==
  evictionMergesDirtyPut =>
    \A i \in putsOut(PutCmds) :
      out[i].cmd = "PutM" /\ out[i].dirty /\ out[i].payload = Head(pre.mshr).payload

\* ---------------------------------------------------------------------
\* C35: a FetchInv, FetchInvX or ForceInv for a line in an invalidation-
\* or fetch-in-flight transient state returns STALL when the head of the
\* MSHR is a FlushLine or FlushLineInv and BLOCK when it is another
\* request; sharers, owner and ack count are unchanged.
InFlight ==
  {"S_D", "E_D", "M_D", "SM_D", "S_Inv", "E_Inv", "M_Inv", "SM_Inv", "SB_Inv",
   "E_InvX", "M_InvX"}

\* The call reached the handler of its command: the MSHR had room and no
\* writeback was waiting for its acknowledgement.
invInFlight ==
  /\ lastOp = "invalidation" /\ lastEv.cmd \in {"FetchInv", "FetchInvX", "ForceInv"}
  /\ pre.state \in InFlight /\ pre.mshr # <<>>
  /\ ~lastDenied /\ ~pre.wb

behindHead ==
  /\ ~fatal
  /\ lastAction = IF Head(pre.mshr).cmd \in FlushCmds THEN "STALL" ELSE "BLOCK"
  /\ sharers = pre.sharers /\ owner = pre.owner /\ acksNeeded = pre.acks

C35_InvWaitsBehindHead == invInFlight => behindHead

\* ---------------------------------------------------------------------
\* C36: isCacheHit reports a miss for a demand GetS/GetX/GetSX whenever
\* the line is in a transient state, and whenever an E or M line has an
\* owner or, for GetX, sharers other than the requestor.
demandHits(c, cmd) == isCacheHit(Eng, Ev(cmd, c, NoData, FALSE), FALSE).act = "HIT"

heldByOthers(c, cmd) ==
  /\ state \in {"E", "M"}
  /\ ownerExists(Eng) \/ (cmd \in {"GetX", "GetSX"} /\ sharers \ {c} # {})

C36_TransientMisses ==
  \A c \in Children, cmd \in GetCmds :
    ~fatal /\ (state \notin Stable \/ heldByOthers(c, cmd)) => ~demandHits(c, cmd)

\* ---------------------------------------------------------------------
\* C37: every completion of a parent ForceInv sends the parent an AckInv
\* with no payload and no dirty flag, be it at once, after the last
\* AckInv or through a racing PutS/PutE/PutM; a ForceInv for a line in I,
\* IS, IM or I_B returns IGNORE with no message and no state change.
forceInvHandled ==
  /\ lastOp = "invalidation" /\ lastEv.cmd = "ForceInv" /\ ~lastDenied /\ ~pre.wb

forceInvCompleted ==
  /\ ~fatal /\ lastAction = "DONE"
  /\ \/ forceInvHandled
     \/ /\ lastOp \in {"response", "replacement"}
        /\ lastEv.cmd \in {"AckInv", "FetchResp", "FetchXResp"} \cup PutCmds
        /\ pre.mshr # <<>> /\ Head(pre.mshr).cmd = "ForceInv"

toParent == {i \in DOMAIN out : out[i].dst = Parent}

C37_ForceInvAckWithoutData ==
  /\ forceInvCompleted =>
       /\ Cardinality(toParent) = 1
       /\ \A i \in toParent :
            out[i].cmd = "AckInv" /\ out[i].payload = NoData /\ ~out[i].dirty
  /\ forceInvHandled /\ pre.state \in {"I", "IS", "IM", "I_B"} =>
       /\ ~fatal /\ lastAction = "IGNORE" /\ out = <<>> /\ state = pre.state

\* ---------------------------------------------------------------------
\* C38: an event stored in the MSHR leaves it only when it is completed
\* or, for a queued Put, merged; in particular a PutS/PutE/PutM handled
\* while the line is in I, S, E, M or S_B does not remove a different
\* event that waits at the head of the MSHR.
putBesideWaiting ==
  /\ ~fatal /\ lastOp = "replacement" /\ lastEv.cmd \in PutCmds
  /\ pre.state \in Stable \cup {"S_B"}
  /\ pre.mshr # <<>> /\ Head(pre.mshr) # lastEv

stillStored(ev) ==
  \/ \E i \in DOMAIN mshr : mshr[i] = ev
  \/ \E i \in DOMAIN replayQ : replayQ[i] = ev

C38_PutKeepsWaitingEvent == putBesideWaiting => stillStored(Head(pre.mshr))

\* ---------------------------------------------------------------------
\* C39: in every reachable state a line in state I has an empty sharer
\* set and no owner.
C39_InvalidLineUnheld == ~fatal /\ state = "I" => sharers = {} /\ owner = NoOwner

\* ---------------------------------------------------------------------
\* C40: under fairness, with no NACKs and with every child and the parent
\* answering each message sent to it, every accepted GetS/GetX/GetSX is
\* eventually answered to its requestor, and every line that enters a
\* transient state eventually returns to I, S, E or M with acks_needed 0.

\* The parties answer what was sent to them, and the controller replays
\* the entries it took from the MSHR; nobody is bound to start a new
\* operation.
Fairness ==
  /\ \A c \in Children : WF_vars(ChildRespond(c))
  /\ WF_vars(ParentRespond)
  /\ WF_vars(ParentAckPut)
  /\ WF_vars(ParentTakePut)
  /\ WF_vars(Replay)
  /\ WF_vars(Wakeup)

SpecLive == InitQuery /\ [][NextQuery]_vars /\ Fairness

settled == state \in Stable /\ acksNeeded = 0

\* The request of the child c was taken by handleRequest and is unanswered.
accepted(c) == lastOp = "request" /\ lastEv.src = c /\ ~lastDenied /\ busy[c]

C40_TransientsSettle ==
  /\ \A c \in Children : accepted(c) ~> ~busy[c]
  /\ (state \notin Stable) ~> settled
====
